---- MODULE Spec2Model ----
(***************************************************************************)
(* SMTP client library (ersinkoc/Mailer).                                  *)
(*                                                                         *)
(* SMTPConnection (src/src/index.ts, lines 101-442) is modelled as a state *)
(* machine whose variables are the fields of the connection object, the    *)
(* table of sendCommand promises, and the position of every async caller.  *)
(* Every method of the class is an operator from a world record to a world *)
(* record, so that a handler that calls other methods is one atomic step.  *)
(* Promise continuations (the code after an await) are separate steps that *)
(* run before any further socket event, as microtasks do.                  *)
(***************************************************************************)
EXTENDS Integers, Sequences, FiniteSets, TLC

\* ---------------------------------------------------------------- bounds
MaxUsers == 2      \* independent callers of sendCommand
MaxLines == 5      \* response lines the server sends during one run
MaxChunk == 2      \* response lines delivered by one socket data event
MaxSends == 2      \* send() calls on one client
MaxRcpts == 2      \* addresses in the to field of a message
MaxPayload == 2    \* lines of the text of a message

Users == 1..MaxUsers
Sends == 1..MaxSends

\* ---------------------------------------------------------------- state
VARIABLES
  socket,            \* this.socket: "null", "plain" or "tls"
  state,             \* this.state: SMTPState
  capabilities,      \* this.capabilities
  commandQueue,      \* this.commandQueue: sequence of promise ids
  currentCommand,    \* this.currentCommand: promise id, 0 for null
  responseBuffer,    \* this.responseBuffer
  multilineResponse, \* this.multilineResponse
  lastResponseCode,  \* this.lastResponseCode, 0 for ''
  destroyed,         \* this.destroyed
  secure,            \* options.secure
  cmds,              \* the promises returned by sendCommand, by id
  pc,                \* position of every async caller
  awaiting,          \* promise id every async caller awaits, 0 for none
  result,            \* outcome of every async caller's own promise
  listeners,         \* once-listeners still registered ("greeting", "error", "connect")
  connTimer,         \* connectionTimeout timer armed
  pendingWrites,     \* socket.write completion callbacks not yet invoked
  closePending,      \* socket.destroy() called, its 'close' event not yet emitted
  emitted,           \* notifications emitted so far on the connection
  delivered,         \* responses handleResponse received during the last step
  bufferMarks,       \* for every text in responseBuffer: the code of its line,
                     \* and whether a response was delivered since it arrived
  advertised,        \* capabilities the last successful EHLO reply advertised
  linesLeft,         \* response lines the server may still send
  send,              \* the locals of every send() call
  server,            \* the RFC 5321 server: its mode, the commands it has read
  env,               \* the environment of this run: server, callers, faults
  codec,             \* a string under encoding: the input, the stage, the results
  parser             \* a byte stream under parsing: the bytes still to arrive,
                     \* this.dataBuffer, the responses handed to handleResponse

vars == << socket, state, capabilities, commandQueue, currentCommand,
           responseBuffer, multilineResponse, lastResponseCode, destroyed,
           secure, cmds, pc, awaiting, result, listeners, connTimer,
           pendingWrites, closePending, emitted, delivered, bufferMarks, advertised,
           linesLeft, send, server, env, codec, parser >>

\* The world: every variable as one record, threaded through the methods.
\* Every step starts with no response delivered yet.  The last fields are
\* not state: the lines joined into the response at hand, the event that
\* destroys the connection, and the address or words of the command line a
\* caller passes to sendCommand.
World ==
  [ socket |-> socket, state |-> state, capabilities |-> capabilities,
    commandQueue |-> commandQueue, currentCommand |-> currentCommand,
    responseBuffer |-> responseBuffer, multilineResponse |-> multilineResponse,
    lastResponseCode |-> lastResponseCode, destroyed |-> destroyed,
    secure |-> secure, cmds |-> cmds, pc |-> pc, awaiting |-> awaiting,
    result |-> result, listeners |-> listeners, connTimer |-> connTimer,
    pendingWrites |-> pendingWrites, closePending |-> closePending,
    emitted |-> emitted, delivered |-> << >>, bufferMarks |-> bufferMarks,
    advertised |-> advertised, linesLeft |-> linesLeft, send |-> send,
    server |-> server, env |-> env, codec |-> codec, parser |-> parser,
    joined |-> << >>, cause |-> "none", address |-> "", words |-> << >> ]

\* v is the value of w, computed once
Becomes(w) ==
  \E v \in { w } :
    /\ socket' = v.socket
    /\ state' = v.state
    /\ capabilities' = v.capabilities
    /\ commandQueue' = v.commandQueue
    /\ currentCommand' = v.currentCommand
    /\ responseBuffer' = v.responseBuffer
    /\ multilineResponse' = v.multilineResponse
    /\ lastResponseCode' = v.lastResponseCode
    /\ destroyed' = v.destroyed
    /\ secure' = v.secure
    /\ cmds' = v.cmds
    /\ pc' = v.pc
    /\ awaiting' = v.awaiting
    /\ result' = v.result
    /\ listeners' = v.listeners
    /\ connTimer' = v.connTimer
    /\ pendingWrites' = v.pendingWrites
    /\ closePending' = v.closePending
    /\ emitted' = v.emitted
    /\ delivered' = v.delivered
    /\ bufferMarks' = v.bufferMarks
    /\ advertised' = v.advertised
    /\ linesLeft' = v.linesLeft
    /\ send' = v.send
    /\ server' = v.server
    /\ env' = v.env
    /\ codec' = v.codec
    /\ parser' = v.parser

\* ---------------------------------------------------------------- types
SMTPState == { "CONNECTING", "CONNECTED", "AUTHENTICATED", "READY",
               "SENDING", "CLOSING", "CLOSED", "ERROR" }

\* ErrorCodes; "EIO" stands for the raw Error socket.write reports.
ErrorCodes == { "ECONNECTION", "ECONNTIMEOUT", "EAUTH", "ETLS", "ESMTP",
                "ERECIPIENT", "EMESSAGE", "EIO" }

\* The async callers: connect(), upgradeToTLS(), quit(), and the callers of
\* sendCommand.
ConnectTask == << "connect", 0 >>
UpgradeTask == << "upgrade", 0 >>
QuitTask == << "quit", 0 >>
UserTask(u) == << "user", u >>
SendTask(s) == << "send", s >>
AuthTask == << "authenticate", 0 >>
VerifyTask == << "verify", 0 >>
SendTasks == { SendTask(s) : s \in Sends }
Tasks == { ConnectTask, UpgradeTask, QuitTask, AuthTask, VerifyTask }
           \cup { UserTask(u) : u \in Users } \cup SendTasks

\* A response line as the server sends it; code 0 is a line that does not
\* match /^(\d{3})([- ])(.*)$/.
Line(c, s, t) == [ code |-> c, sep |-> s, text |-> t ]

\* The lines a server answers with: greeting and go-ahead, success, failure.
ReplyLines ==
  { Line(220, " ", "host"), Line(250, " ", "host"), Line(550, " ", "host") }

\* The lines of EHLO replies that advertise capabilities.
EhloLines ==
  { Line(220, " ", "host"), Line(250, "-", "host"), Line(250, " ", "host"),
    Line(250, "-", "AUTH PLAIN"), Line(250, " ", "STARTTLS") }

\* Lines of a server that does not keep to the response grammar.
StrayLines ==
  { Line(220, " ", "host"), Line(220, "-", "host"), Line(250, "-", "host"),
    Line(250, " ", "host"), Line(0, " ", "host") }

\* Single-line replies at the two ends of the success range 200..399.
BoundaryLines ==
  { Line(199, " ", "host"), Line(200, " ", "host"),
    Line(399, " ", "host"), Line(400, " ", "host") }

\* The environments a run is explored in: the lines the server may send, the
\* number of sendCommand callers, whether quit() is called, options.secure,
\* and the failures the transport may report.
Faults == { "error", "close", "timeout", "connectionTimeout", "write", "tls" }

\* AuthCredentials (SMTPAuth.ts 5-10); '' stands for an absent field.
Credentials(type, user, pass, accessToken) ==
  [ type |-> type, user |-> user, pass |-> pass, accessToken |-> accessToken ]

\* options.auth is not set
NoAuth == Credentials("", "", "", "")

Environment(lines, users, quit, sec, faults) ==
  [ server |-> "any", lines |-> lines, users |-> users, quit |-> quit,
    secure |-> sec, faults |-> faults, starttls |-> FALSE, sends |-> 0,
    messages |-> {}, commands |-> { << "NOOP" >> }, auth |-> NoAuth,
    advertise |-> "" ]

\* The command lines of callers that authenticate (SMTPAuth.ts 105-134): a
\* line is the sequence of its words.
AuthCommands ==
  { << "AUTH", "PLAIN", "secret" >>, << "AUTH", "LOGIN" >>, << "secret" >>,
    << "NOOP" >> }

\* A server that follows RFC 5321, with or without the STARTTLS extension,
\* or a lenient one; the only callers are send() calls.
SendEnvironment(kind, starttls, sends, messages) ==
  [ server |-> kind, lines |-> {}, users |-> 0, quit |-> FALSE,
    secure |-> FALSE, faults |-> {}, starttls |-> starttls, sends |-> sends,
    messages |-> messages, commands |-> {}, auth |-> NoAuth, advertise |-> "" ]

SendEnvsOf(sends, messages) ==
  { SendEnvironment("rfc", b, sends, messages) : b \in BOOLEAN }
    \cup { SendEnvironment("lenient", FALSE, sends, messages) }

Envs ==
  { Environment(ReplyLines, MaxUsers, TRUE, FALSE, {}),
    Environment(ReplyLines, 1, TRUE, TRUE, Faults),
    Environment(EhloLines, 1, FALSE, FALSE, Faults),
    Environment(EhloLines \cup { Line(550, " ", "host") }, 1, TRUE, FALSE,
                { "tls" }),
    Environment(StrayLines, MaxUsers, FALSE, FALSE, {}),
    Environment(BoundaryLines, MaxUsers, TRUE, FALSE, {}),
    [Environment({ Line(250, " ", "host") }, MaxUsers, FALSE, FALSE, {})
       EXCEPT !.commands = AuthCommands] }

EmptyCapabilities == [ starttls |-> FALSE, auth |-> << >> ]

\* The outcome of an async call: resolved or rejected, and for a MailerError
\* its code, message, statusCode (0 for undefined), response (the code and
\* the lines of the reply, NoResponse for undefined) and solution; for
\* verify() the value it returns.
NoResponse == [ code |-> 0, text |-> << >> ]

Outcome(status, err, message) ==
  [ status |-> status, err |-> err, message |-> message, statusCode |-> 0,
    response |-> NoResponse, solution |-> "", value |-> "" ]

NoResult == Outcome("pending", "", "")

\* The sequences over S of length lo..hi.
SeqsOf(S, lo, hi) == UNION { [1..n -> S] : n \in lo..hi }

\* Message (types/index.ts): from, to, cc, bcc as bare addresses, an absent
\* cc or bcc as the empty list; text as its lines (the text split on LF),
\* every line a sequence of characters.  A header line is the sequence of
\* its name and its addresses.
Message(to, cc, bcc, text) ==
  [ from |-> "s", to |-> to, cc |-> cc, bcc |-> bcc, text |-> text,
    messageId |-> "" ]

Addr == { "x", "y" }

TextLines == { << "a" >>, << "." >>, << ".", "a" >>, << ".", "." >> }

\* Messages with one line of text to the first n of the addresses x, y, z.
PlainMessages ==
  { Message(SubSeq(<< "x", "y", "z" >>, 1, n), << >>, << >>, << << "a" >> >>) :
      n \in 0..MaxRcpts }

\* Messages that differ in their to, cc and bcc fields.
AddressMessages ==
  { Message(to, cc, bcc, << << "a" >> >>) :
      to \in SeqsOf(Addr, 0, MaxRcpts),
      cc \in SeqsOf(Addr, 0, 1),
      bcc \in SeqsOf(Addr, 0, 1) }

\* Messages that differ in their text.
TextMessages ==
  { Message(<< "x" >>, << >>, << >>, text) :
      text \in SeqsOf(TextLines, 1, MaxPayload) }

\* A message with a messageId of the caller's.
IdMessages ==
  { [Message(<< "x" >>, << >>, << >>, << << "a" >> >>) EXCEPT !.messageId = "m"] }

\* Messages whose addresses are given in display form, "N <x>" or "<y>",
\* as well as bare.
DisplayMessages ==
  { [Message(to, cc, bcc, << << "a" >> >>) EXCEPT !.from = from] :
      to \in { << "N <x>" >>, << "x", "N <x>" >> },
      cc \in { << >>, << "<y>" >> },
      bcc \in { << >>, << "x" >>, << "y" >> },
      from \in { "s", "N <s>" } }

\* Locals of send() and sendData(): the message, its envelope, the
\* recipient and payload line at hand (as indices), the accepted and
\* rejected lists, and the lines of the composed message.
NoSend == [ message |-> Message(<< >>, << >>, << >>, << >>),
            sender |-> "", envelope |-> << >>, rcpt |-> 0, lines |-> << >>,
            line |-> 0, accepted |-> << >>, rejected |-> << >>,
            response |-> << >>, messageId |-> "" ]

\* The promise sendCommand returns: its command line (with the address of a
\* RCPT TO, and the words of a line of a message or of a caller's command),
\* the caller that awaits it, its settlement, what the command event
\* carried, and where and when its line was written.
Promise(line, owner) ==
  [ line |-> line, owner |-> owner, status |-> "pending", err |-> "",
    code |-> 0, msg |-> << >>, rcpt |-> "", text |-> << >>,
    written |-> FALSE, logged |-> << >>, via |-> "none",
    atState |-> "none", afterGoAhead |-> FALSE, alone |-> TRUE,
    inOrder |-> TRUE, droppedBy |-> "none" ]

\* The promise of a command whose line has the address or the words the
\* caller passes.
Request(w, line, t) ==
  [Promise(line, t) EXCEPT !.rcpt = w.address, !.text = w.words]

\* No string is under encoding.
NoCodec == [ stage |-> "none", data |-> << >>, encoded |-> << >>, decoded |-> << >> ]

\* No byte stream is under parsing; the parser of a new connection
\* (index.ts 105-108).
NoParser ==
  [ stream |-> << >>, rest |-> << >>, dataBuffer |-> << >>,
    multilineResponse |-> FALSE, lastResponseCode |-> << >>,
    responseBuffer |-> << >>, responses |-> << >> ]

\* ---------------------------------------------------------------- methods

Settled(w, id) == id # 0 /\ w.cmds[id].status # "pending"

\* resolve / reject of a caller's own promise: only the first call counts.
SettleTask(w, t, status, err) ==
  IF w.result[t].status = "pending"
  THEN [w EXCEPT !.result[t] = Outcome(status, err, "")]
  ELSE w

\* The callback sendCommand stores with the command (index.ts 328-331).
callback(w, id, err, code, msg) ==
  IF err # ""
  THEN [w EXCEPT !.cmds[id].status = "rejected", !.cmds[id].err = err,
                 !.cmds[id].code = code, !.cmds[id].msg = msg]
  ELSE [w EXCEPT !.cmds[id].status = "resolved",
                 !.cmds[id].code = code, !.cmds[id].msg = msg]

\* The caller that awaited promise id has read its value; nothing else
\* holds the response text.
consumed(w, id) == [w EXCEPT !.cmds[id].msg = << >>]

InQueue(w, k) == \E i \in 1..Len(w.commandQueue) : w.commandQueue[i] = k

\* cleanup() (index.ts 434-441); every command it removes keeps a note of
\* the event that removed it.
cleanup(w) ==
  [w EXCEPT !.socket = "null", !.commandQueue = << >>, !.currentCommand = 0,
            !.responseBuffer = << >>, !.state = "CLOSED",
            !.bufferMarks = << >>,
            !.cmds = [k \in 1..Len(@) |->
                        IF k = w.currentCommand \/ InQueue(w, k)
                        THEN [@[k] EXCEPT !.droppedBy = w.cause]
                        ELSE @[k]]]

\* destroy() (index.ts 426-432); socket.destroy() discards the write
\* callbacks and schedules the socket's 'close' event.
destroy(w) ==
  LET w1 == [w EXCEPT !.destroyed = TRUE]
      w2 == IF w1.socket # "null"
            THEN [w1 EXCEPT !.closePending = TRUE, !.pendingWrites = 0]
            ELSE w1
  IN cleanup(w2)

\* The server's 220 reply to STARTTLS has been received.
GoAheadReceived(w) ==
  \E i \in 1..Len(w.cmds) :
    /\ w.cmds[i].line = "STARTTLS"
    /\ w.cmds[i].status = "resolved"
    /\ w.cmds[i].code = 220

\* The words of a command line; a line of a message or of a SASL exchange
\* is its words, and may have none.
Command(c) ==
  IF c.line \in { "LINE", "REPLY" } \/ c.text # << >> THEN c.text
  ELSE << c.line >>

\* logCommand that masks nothing
logCommandInClear(command) == command

\* logCommand (index.ts 347)
logCommand(command) ==
  IF command # << >> /\ Head(command) = "AUTH"
  THEN << "AUTH", "***" >>
  ELSE command

\* this.emit('command', logCommand) and this.socket.write(command + CRLF, cb)
\* (index.ts 346-350)
write(w, id) ==
  [w EXCEPT !.cmds[id].written = TRUE,
            !.cmds[id].logged = logCommand(Command(w.cmds[id])),
            !.cmds[id].via = w.socket,
            !.cmds[id].atState = w.state,
            !.cmds[id].afterGoAhead = GoAheadReceived(w),
            !.cmds[id].alone =
               \A k \in 1..Len(w.cmds) :
                  k # id /\ w.cmds[k].written => w.cmds[k].status # "pending",
            !.cmds[id].inOrder =
               \A k \in 1..(id - 1) : w.cmds[k].status # "pending",
            !.pendingWrites = @ + 1]

\* processCommandQueue() taking the request made last instead of the first
processCommandQueueLifo(w) ==
  IF w.currentCommand # 0 \/ w.commandQueue = << >>
  THEN w
  ELSE LET n == Len(w.commandQueue)
           id == w.commandQueue[n]
           w1 == [w EXCEPT !.currentCommand = id,
                           !.commandQueue = SubSeq(@, 1, n - 1)]
       IN IF w1.socket = "null" THEN w1 ELSE write(w1, id)

\* processCommandQueue() (index.ts 340-358)
processCommandQueue(w) ==
  IF w.currentCommand # 0 \/ w.commandQueue = << >>
  THEN w
  ELSE LET id == Head(w.commandQueue)
           w1 == [w EXCEPT !.currentCommand = id, !.commandQueue = Tail(@)]
       IN IF w1.socket = "null" THEN w1 ELSE write(w1, id)

\* sendCommand() writing its line at once, whether or not a command is in
\* flight
sendCommandUnqueued(w, line, t) ==
  LET id == Len(w.cmds) + 1
  IN IF w.destroyed \/ w.socket = "null"
     THEN [w EXCEPT !.cmds = Append(@, [Request(w, line, t) EXCEPT
                                          !.status = "rejected",
                                          !.err = "ECONNECTION"]),
                    !.awaiting[t] = id]
     ELSE LET w1 == [w EXCEPT !.cmds = Append(@, Request(w, line, t)),
                              !.awaiting[t] = id]
          IN IF w1.currentCommand = 0
             THEN write([w1 EXCEPT !.currentCommand = id], id)
             ELSE write(w1, id)

\* sendCommand that pushes the command before it looks at the connection
sendCommandPushedFirst(w, line, t) ==
  LET id == Len(w.cmds) + 1
  IN IF w.destroyed \/ w.socket = "null"
     THEN [w EXCEPT !.cmds = Append(@, [Request(w, line, t) EXCEPT
                                          !.status = "rejected",
                                          !.err = "ECONNECTION"]),
                    !.awaiting[t] = id,
                    !.commandQueue = Append(@, id)]
     ELSE LET w1 == [w EXCEPT !.cmds = Append(@, Request(w, line, t)),
                              !.awaiting[t] = id,
                              !.commandQueue = Append(@, id)]
          IN IF w1.currentCommand = 0 THEN processCommandQueue(w1) ELSE w1

\* sendCommand(command) (index.ts 319-338), called by task t
sendCommand(w, line, t) ==
  LET id == Len(w.cmds) + 1
  IN IF w.destroyed \/ w.socket = "null"
     THEN [w EXCEPT !.cmds = Append(@, [Request(w, line, t) EXCEPT
                                          !.status = "rejected",
                                          !.err = "ECONNECTION"]),
                    !.awaiting[t] = id]
     ELSE LET w1 == [w EXCEPT !.cmds = Append(@, Request(w, line, t)),
                              !.awaiting[t] = id,
                              !.commandQueue = Append(@, id)]
          IN IF w1.currentCommand = 0 THEN processCommandQueue(w1) ELSE w1

\* sendEHLO() up to its first await (index.ts 285-287)
sendEHLO(w, t) ==
  LET w1 == sendCommand(w, "EHLO", t)
  IN [w1 EXCEPT !.pc[t] = "ehlo"]

\* The AUTH lines of EHLO replies, and for each of them what
\* line.trim().toUpperCase() followed by substring(5).split(' ') yields
\* (index.ts 299-302).
AuthMethods ==
  ("AUTH PLAIN" :> << "PLAIN" >>)
    @@ ("AUTH LOGIN PLAIN" :> << "LOGIN", "PLAIN" >>)
    @@ ("AUTH PLAIN LOGIN CRAM-MD5" :> << "PLAIN", "LOGIN", "CRAM-MD5" >>)
    @@ ("AUTH XOAUTH2 PLAIN" :> << "XOAUTH2", "PLAIN" >>)
    @@ ("auth login xoauth2" :> << "LOGIN", "XOAUTH2" >>)
    @@ ("AUTH XOAUTH2" :> << "XOAUTH2" >>)
    @@ ("AUTH GSSAPI" :> << "GSSAPI" >>)

\* parseEHLOResponse (index.ts 296-317); msg is the response split on LF,
\* its first line is skipped by lines.slice(1).
RECURSIVE parseCapabilityLines(_, _)
parseCapabilityLines(caps, texts) ==
  IF texts = << >> THEN caps
  ELSE LET capability == Head(texts)
           caps1 == IF capability \in DOMAIN AuthMethods
                      THEN [caps EXCEPT !.auth = AuthMethods[capability]]
                    ELSE IF capability = "STARTTLS"
                      THEN [caps EXCEPT !.starttls = TRUE]
                    ELSE caps
       IN parseCapabilityLines(caps1, Tail(texts))

parseEHLOResponse(caps, msg) ==
  IF msg = << >> THEN caps ELSE parseCapabilityLines(caps, Tail(msg))

\* The command enqueued first among those whose callback has not fired.
OldestPending(w) ==
  LET P == { k \in 1..Len(w.cmds) : w.cmds[k].status = "pending" }
  IN IF P = {} THEN 0 ELSE CHOOSE k \in P : \A j \in P : k <= j

\* The command processCommandQueue would dispatch next, 0 for none.
NextQueued(w) == IF w.commandQueue = << >> THEN 0 ELSE Head(w.commandQueue)

\* handleResponse() taking 400 for a success code
handleResponseInclusive(w, code, msg) ==
  IF w.currentCommand = 0 /\ w.state = "CONNECTED" /\ code = 220
  THEN IF "greeting" \in w.listeners
       THEN sendEHLO([w EXCEPT !.listeners = @ \ { "greeting" }], ConnectTask)
       ELSE w
  ELSE IF w.currentCommand # 0
  THEN LET id == w.currentCommand
           w1 == [w EXCEPT !.currentCommand = 0,
                           !.delivered = Append(@,
                              [ id |-> id, code |-> code, msg |-> msg,
                                head |-> OldestPending(w), joined |-> w.joined,
                                next |-> NextQueued(w) ])]
           w2 == IF code >= 200 /\ code <= 400
                 THEN callback(w1, id, "", code, msg)
                 ELSE callback(w1, id, "ESMTP", code, msg)
       IN processCommandQueue(w2)
  ELSE w

\* handleResponse(code, message) (index.ts 258-283)
handleResponse(w, code, msg) ==
  IF w.currentCommand = 0 /\ w.state = "CONNECTED" /\ code = 220
  THEN \* this.emit('greeting'): the once-listener of connect() runs sendEHLO
       IF "greeting" \in w.listeners
       THEN sendEHLO([w EXCEPT !.listeners = @ \ { "greeting" }], ConnectTask)
       ELSE w
  ELSE IF w.currentCommand # 0
  THEN LET id == w.currentCommand
           w1 == [w EXCEPT !.currentCommand = 0,
                           !.delivered = Append(@,
                              [ id |-> id, code |-> code, msg |-> msg,
                                head |-> OldestPending(w), joined |-> w.joined,
                                next |-> NextQueued(w) ])]
           w2 == IF code >= 200 /\ code < 400
                 THEN callback(w1, id, "", code, msg)
                 ELSE callback(w1, id, "ESMTP", code, msg)
       IN processCommandQueue(w2)
  ELSE w

\* What is remembered of a buffered line: its code, and whether a response
\* has been handed to handleResponse since the line arrived.
Mark(line) == [ code |-> line.code, stale |-> FALSE ]

\* processLine(line) (index.ts 235-256)
processLine(w, line) ==
  IF line.code = 0 THEN w
  ELSE IF w.multilineResponse /\ line.code = w.lastResponseCode
  THEN LET w1 == [w EXCEPT !.responseBuffer = Append(@, line.text),
                           !.bufferMarks = Append(@, Mark(line))]
       IN IF line.sep = " "
          THEN LET w2 == [w1 EXCEPT !.multilineResponse = FALSE,
                                    !.joined = w1.bufferMarks]
                   w3 == handleResponse(w2, line.code, w2.responseBuffer)
               IN [w3 EXCEPT !.responseBuffer = << >>, !.lastResponseCode = 0,
                             !.bufferMarks = << >>]
          ELSE w1
  ELSE IF line.sep = "-"
  THEN [w EXCEPT !.multilineResponse = TRUE,
                 !.lastResponseCode = line.code,
                 !.responseBuffer = Append(@, line.text),
                 !.bufferMarks = Append(@, Mark(line))]
  ELSE LET w1 == handleResponse([w EXCEPT !.joined = << Mark(line) >>],
                                line.code, << line.text >>)
       IN [w1 EXCEPT !.bufferMarks =
                       [i \in 1..Len(@) |-> [@[i] EXCEPT !.stale = TRUE]]]

\* processDataBuffer() (index.ts 224-233) over the complete lines of a chunk
RECURSIVE processDataBuffer(_, _)
processDataBuffer(w, lines) ==
  IF lines = << >> THEN w
  ELSE processDataBuffer(processLine(w, Head(lines)), Tail(lines))

\* ---------------------------------------------------------------- scheduling

\* A caller whose awaited promise is settled has a continuation in the
\* microtask queue; it runs before the event loop delivers another event.
Awaits == { "ehlo", "helo", "starttls", "quit", "wait",
            "mail", "rcpt", "data", "line", "dot",
            "plain", "login", "username", "password", "cram", "response",
            "xoauth2", "retry", "noop" }

Runnable ==
  \/ \E t \in Tasks : pc[t] \in Awaits /\ Settled(World, awaiting[t])
  \/ \E t \in SendTasks \cup { VerifyTask } :
        \/ pc[t] = "connected"
        \/ pc[t] = "connecting" /\ result[ConnectTask].status # "pending"
        \/ pc[t] = "upgrading" /\ result[UpgradeTask].status # "pending"
        \/ pc[t] = "authenticating" /\ result[AuthTask].status # "pending"

\* The live transport is the socket STARTTLS produced.
Upgraded == socket = "tls" /\ ~secure

Chunks == UNION { [1..n -> env.lines] : n \in 1..MaxChunk }

\* ---------------------------------------------------------------- initial state
InitObject ==
  /\ socket = "null"
  /\ state = "CLOSED"
  /\ capabilities = EmptyCapabilities
  /\ commandQueue = << >>
  /\ currentCommand = 0
  /\ responseBuffer = << >>
  /\ multilineResponse = FALSE
  /\ lastResponseCode = 0
  /\ destroyed = FALSE
  /\ secure = env.secure
  /\ cmds = << >>
  /\ pc = [t \in Tasks |-> "init"]
  /\ awaiting = [t \in Tasks |-> 0]
  /\ result = [t \in Tasks |-> NoResult]
  /\ listeners = {}
  /\ connTimer = FALSE
  /\ pendingWrites = 0
  /\ closePending = FALSE
  /\ emitted = {}
  /\ delivered = << >>
  /\ bufferMarks = << >>
  /\ advertised = EmptyCapabilities
  /\ linesLeft = MaxLines
  /\ send = [t \in SendTasks |-> NoSend]
  /\ server = [ mode |-> "greet", served |-> 0 ]

InitConnection ==
  /\ codec = NoCodec
  /\ parser = NoParser
  /\ InitObject

Init ==
  /\ env \in Envs
  /\ InitConnection

\* ---------------------------------------------------------------- connect()

\* connect() (index.ts 125-186)
connect(w) ==
  IF w.state # "CLOSED"
  THEN SettleTask([w EXCEPT !.pc[ConnectTask] = "done"],
                  ConnectTask, "rejected", "ECONNECTION")
  ELSE [w EXCEPT !.state = "CONNECTING",
                 !.connTimer = TRUE,
                 !.socket = IF w.secure THEN "tls" ELSE "plain",
                 !.listeners = { "connect", "error", "greeting" },
                 !.pc[ConnectTask] = "pending"]

\* connect() is called once per connection object, right after its
\* construction (SMTPClient.connect, part_006 48-59)
Connect ==
  /\ pc[ConnectTask] = "init"
  /\ env.server = "any"
  /\ Becomes(connect(World))

\* socket.once('connect') (index.ts 160-164)
SocketConnect ==
  /\ ~Runnable
  /\ socket # "null"
  /\ "connect" \in listeners
  /\ Becomes([World EXCEPT !.connTimer = FALSE,
                           !.state = "CONNECTED",
                           !.listeners = @ \ { "connect" },
                           !.emitted = @ \cup { "connect" }])

\* the connectionTimeout timer (index.ts 133-144)
ConnectionTimeout ==
  /\ ~Runnable
  /\ "connectionTimeout" \in env.faults
  /\ connTimer
  /\ Becomes(SettleTask(destroy([World EXCEPT !.connTimer = FALSE,
                                              !.cause = "connectionTimeout"]),
                        ConnectTask, "rejected", "ECONNTIMEOUT"))

\* ---------------------------------------------------------------- socket events

\* socket.on('data') (index.ts 191-194): a chunk of complete lines
SocketData ==
  /\ ~Runnable
  /\ env.server = "any"
  /\ socket # "null"
  /\ "connect" \notin listeners
  /\ pc[UpgradeTask] # "handshake"
  /\ \E chunk \in Chunks :
       /\ Len(chunk) <= linesLeft
       /\ Becomes(processDataBuffer([World EXCEPT !.linesLeft = @ - Len(chunk)],
                                    chunk))

\* socket 'error': on the socket of an upgraded connection the listeners are
\* tlsSocket.on('error') (index.ts 388-398) then socket.on('error')
\* (196-199); on the first socket they are socket.on('error') then
\* socket.once('error') of connect() (166-178).
SocketError ==
  /\ ~Runnable
  /\ "error" \in env.faults
  /\ socket # "null"
  /\ pc[UpgradeTask] # "handshake"
  /\ LET w == World
     IN IF Upgraded
        THEN LET w1 == SettleTask(w, UpgradeTask, "rejected", "ETLS")
                 w2 == [w1 EXCEPT !.emitted = @ \cup { "error" },
                                  !.cause = "error"]
             IN Becomes(destroy(w2))
        ELSE LET w1 == [w EXCEPT !.emitted = @ \cup { "error" },
                                 !.cause = "error"]
                 w2 == destroy(w1)
                 w3 == IF "error" \in w2.listeners
                       THEN SettleTask([w2 EXCEPT !.connTimer = FALSE,
                                                  !.state = "ERROR",
                                                  !.listeners = @ \ { "error" }],
                                       ConnectTask, "rejected", "ECONNECTION")
                       ELSE w2
             IN Becomes(w3)

\* socket.on('close') (index.ts 201-205): the peer closed, or the socket was
\* destroyed
SocketClose ==
  /\ ~Runnable
  /\ closePending \/ (socket # "null" /\ "close" \in env.faults)
  /\ LET w1 == [World EXCEPT !.state = "CLOSED",
                             !.emitted = @ \cup { "close" },
                             !.cause = "close",
                             !.closePending = FALSE,
                             !.pendingWrites = 0]
     IN Becomes(cleanup(w1))

\* socket.on('timeout') (index.ts 207-217): the idle watchdog
SocketTimeout ==
  /\ ~Runnable
  /\ "timeout" \in env.faults
  /\ socket # "null"
  /\ LET w1 == [World EXCEPT !.emitted = @ \cup { "error:ECONNTIMEOUT" },
                             !.cause = "timeout"]
     IN Becomes(destroy(w1))

\* completion callback of socket.write (index.ts 350-357)
WriteComplete ==
  /\ ~Runnable
  /\ "write" \in env.faults
  /\ pendingWrites > 0
  /\ \E error \in BOOLEAN :
       LET w == [World EXCEPT !.pendingWrites = @ - 1]
       IN IF error /\ w.currentCommand # 0
          THEN LET id == w.currentCommand
                   w1 == [w EXCEPT !.currentCommand = 0]
                   w2 == callback(w1, id, "EIO", 0, << >>)
               IN Becomes(processCommandQueue(w2))
          ELSE Becomes(w)

\* ---------------------------------------------------------------- sendEHLO()

\* sendEHLO() after await sendCommand('EHLO') (index.ts 287-291)
EhloSettled(t) ==
  /\ pc[t] = "ehlo"
  /\ Settled(World, awaiting[t])
  /\ LET c == cmds[awaiting[t]]
         w == consumed(World, awaiting[t])
     IN IF c.status = "resolved"
        THEN Becomes(SettleTask(
               [w EXCEPT !.capabilities = parseEHLOResponse(@, c.msg),
                         !.advertised = parseEHLOResponse(EmptyCapabilities, c.msg),
                         !.state = "READY",
                         !.pc[t] = "done"],
               t, "resolved", ""))
        ELSE Becomes([sendCommand(w, "HELO", t) EXCEPT !.pc[t] = "helo"])

\* sendEHLO() after await sendCommand('HELO') (index.ts 291-293)
HeloSettled(t) ==
  /\ pc[t] = "helo"
  /\ Settled(World, awaiting[t])
  /\ LET c == cmds[awaiting[t]]
         w == consumed(World, awaiting[t])
     IN IF c.status = "resolved"
        THEN Becomes(SettleTask([w EXCEPT !.state = "READY", !.pc[t] = "done"],
                                t, "resolved", ""))
        ELSE Becomes(SettleTask([w EXCEPT !.pc[t] = "done"],
                                t, "rejected", c.err))

\* ---------------------------------------------------------------- upgradeToTLS()

\* upgradeToTLS() up to await sendCommand('STARTTLS') (index.ts 360-365)
upgradeToTLS(w) ==
  IF ~w.capabilities.starttls \/ w.secure
  THEN SettleTask([w EXCEPT !.pc[UpgradeTask] = "done"],
                  UpgradeTask, "rejected", "ETLS")
  ELSE [sendCommand(w, "STARTTLS", UpgradeTask)
          EXCEPT !.pc[UpgradeTask] = "starttls"]

\* upgradeToTLS() is called once connect() has resolved (part_006 59-64)
UpgradeToTLS ==
  /\ pc[UpgradeTask] = "init"
  /\ env.server = "any"
  /\ result[ConnectTask].status = "resolved"
  /\ Becomes(upgradeToTLS(World))

\* upgradeToTLS() after the await: tlsConnect starts (index.ts 367-379)
StartTLSSettled ==
  /\ pc[UpgradeTask] = "starttls"
  /\ Settled(World, awaiting[UpgradeTask])
  /\ LET c == cmds[awaiting[UpgradeTask]]
         w == consumed(World, awaiting[UpgradeTask])
     IN IF c.status = "rejected"
        THEN Becomes(SettleTask([w EXCEPT !.pc[UpgradeTask] = "done"],
                                UpgradeTask, "rejected", c.err))
        ELSE IF w.socket = "null"
        THEN Becomes(SettleTask([w EXCEPT !.pc[UpgradeTask] = "done"],
                                UpgradeTask, "rejected", "ECONNECTION"))
        ELSE Becomes([w EXCEPT !.pc[UpgradeTask] = "handshake"])

\* the tlsConnect callback (index.ts 379-386)
TlsHandshakeDone ==
  /\ ~Runnable
  /\ pc[UpgradeTask] = "handshake"
  /\ socket # "null"
  /\ Becomes(sendEHLO([World EXCEPT !.socket = "tls"], UpgradeTask))

\* tlsSocket.on('error') during the handshake (index.ts 388-398)
TlsHandshakeFail ==
  /\ ~Runnable
  /\ "tls" \in env.faults
  /\ pc[UpgradeTask] = "handshake"
  /\ Becomes(SettleTask([World EXCEPT !.pc[UpgradeTask] = "done"],
                        UpgradeTask, "rejected", "ETLS"))

\* ---------------------------------------------------------------- quit()

\* quit() up to await sendCommand('QUIT') (index.ts 414-419)
Quit ==
  /\ pc[QuitTask] = "init"
  /\ env.quit
  /\ LET w == World
     IN IF w.state = "CLOSED" \/ w.state = "CLOSING"
        THEN Becomes(SettleTask([w EXCEPT !.pc[QuitTask] = "done"],
                                QuitTask, "resolved", ""))
        ELSE Becomes([sendCommand([w EXCEPT !.state = "CLOSING"], "QUIT", QuitTask)
                        EXCEPT !.pc[QuitTask] = "quit"])

\* quit() that destroys the socket only when QUIT has succeeded
QuitSettledOnSuccess ==
  /\ pc[QuitTask] = "quit"
  /\ Settled(World, awaiting[QuitTask])
  /\ LET c == cmds[awaiting[QuitTask]]
         w == [consumed(World, awaiting[QuitTask])
                 EXCEPT !.pc[QuitTask] = "done", !.cause = "quit"]
     IN IF c.status = "resolved"
        THEN Becomes(SettleTask(destroy(w), QuitTask, "resolved", ""))
        ELSE Becomes(SettleTask(w, QuitTask, "rejected", c.err))

\* quit() after the await, whatever its outcome (index.ts 420-423)
QuitSettled ==
  /\ pc[QuitTask] = "quit"
  /\ Settled(World, awaiting[QuitTask])
  /\ Becomes(SettleTask(destroy([consumed(World, awaiting[QuitTask])
                                   EXCEPT !.pc[QuitTask] = "done",
                                          !.cause = "quit"]),
                        QuitTask, "resolved", ""))

\* ---------------------------------------------------------------- callers

\* a caller awaits connection.sendCommand (part_006 491)
UserSend(u) ==
  /\ pc[UserTask(u)] = "init"
  /\ u <= env.users
  /\ \A v \in Users : v < u => pc[UserTask(v)] # "init"
  /\ \E command \in env.commands :
       Becomes([sendCommand([World EXCEPT !.words = command],
                            Head(command), UserTask(u))
                  EXCEPT !.pc[UserTask(u)] = "wait"])

UserSettled(u) ==
  /\ pc[UserTask(u)] = "wait"
  /\ Settled(World, awaiting[UserTask(u)])
  /\ LET c == cmds[awaiting[UserTask(u)]]
         w == consumed(World, awaiting[UserTask(u)])
     IN Becomes(SettleTask([w EXCEPT !.pc[UserTask(u)] = "done"],
                           UserTask(u), c.status, c.err))

\* ---------------------------------------------------------------- specification
Next ==
  \/ Connect
  \/ SocketConnect
  \/ ConnectionTimeout
  \/ SocketData
  \/ SocketError
  \/ SocketClose
  \/ SocketTimeout
  \/ WriteComplete
  \/ \E t \in { ConnectTask, UpgradeTask } : EhloSettled(t)
  \/ \E t \in { ConnectTask, UpgradeTask } : HeloSettled(t)
  \/ UpgradeToTLS
  \/ StartTLSSettled
  \/ TlsHandshakeDone
  \/ TlsHandshakeFail
  \/ Quit
  \/ QuitSettled
  \/ \E u \in Users : UserSend(u)
  \/ \E u \in Users : UserSettled(u)

Spec == Init /\ [][Next]_vars

\* ---------------------------------------------------------------- SMTPClient.send()

\* The catch of send() (part_006 144-152): a MailerError is rethrown, any
\* other error is wrapped as MESSAGE_REJECTED.
Wrapped(err) == IF err = "EIO" THEN "EMESSAGE" ELSE err

Throw(w, t, err) == SettleTask([w EXCEPT !.pc[t] = "done"], t, "rejected", err)

\* throw new MailerError(message, err)
ThrowError(w, t, err, message) ==
  IF w.result[t].status = "pending"
  THEN [w EXCEPT !.pc[t] = "done",
                 !.result[t] = Outcome("rejected", err, message)]
  ELSE [w EXCEPT !.pc[t] = "done"]

\* [...new Set(to)] (part_006 176): the first occurrence of every address
RECURSIVE Unique(_, _)
Unique(seen, list) ==
  IF list = << >> THEN seen
  ELSE IF \E i \in 1..Len(seen) : seen[i] = Head(list)
  THEN Unique(seen, Tail(list))
  ELSE Unique(Append(seen, Head(list)), Tail(list))

\* The characters of the address strings; a name or a mailbox counts as one
\* character.
AddressChars ==
  ("s" :> << "s" >>) @@ ("x" :> << "x" >>) @@ ("y" :> << "y" >>)
    @@ ("z" :> << "z" >>)
    @@ ("N <s>" :> << "N", " ", "<", "s", ">" >>)
    @@ ("N <x>" :> << "N", " ", "<", "x", ">" >>)
    @@ ("<y>" :> << "<", "y", ">" >>)

\* The string that has the given characters.
StringOf(chars) == CHOOSE a \in DOMAIN AddressChars : AddressChars[a] = chars

\* extractAddress(addr) of a string (part_006 181-186): the first match of
\* /<([^>]+)>/, that is what stands between the leftmost '<' that is
\* followed by at least one character other than '>' and then by '>'.
extractAddress(addr) ==
  LET chars == AddressChars[addr]
      Close(i) == { j \in (i + 1)..Len(chars) : chars[j] = ">" }
      First(S) == CHOOSE j \in S : \A k \in S : j <= k
      opens == { i \in 1..Len(chars) :
                   /\ chars[i] = "<"
                   /\ Close(i) # {}
                   /\ First(Close(i)) >= i + 2 }
  IN IF opens = {} THEN addr
     ELSE LET i == First(opens)
          IN StringOf(SubSeq(chars, i + 1, First(Close(i)) - 1))

extractAll(list) == [i \in 1..Len(list) |-> extractAddress(list[i])]

\* createEnvelope() that removes the duplicates among the addresses as they
\* were given
createEnvelopeOfGiven(message) ==
  [ from |-> extractAddress(message.from),
    to |-> extractAll(Unique(<< >>, message.to \o message.cc \o message.bcc)) ]

\* createEnvelope(message) (part_006 155-179)
createEnvelope(message) ==
  [ from |-> extractAddress(message.from),
    to |-> Unique(<< >>, extractAll(message.to) \o extractAll(message.cc)
                           \o extractAll(message.bcc)) ]

\* buildMessageData() that also emits the bcc field as a header
buildMessageDataWithBcc(message, generated) ==
  << << "From:", message.from >>, << "To:" >> \o message.to >>
    \o (IF message.cc # << >> THEN << << "Cc:" >> \o message.cc >> ELSE << >>)
    \o (IF message.bcc # << >> THEN << << "Bcc:" >> \o message.bcc >> ELSE << >>)
    \o << << "Subject:" >>, << "Date:" >>,
          << "Message-ID:", "<",
             IF message.messageId # "" THEN message.messageId ELSE generated,
             ">" >>,
          << "MIME-Version:" >>, << "Content-Type:" >>,
          << "Content-Transfer-Encoding:" >>, << >> >>
    \o message.text

\* buildMessageData(message) (part_006 253-299, 452-458) of a message with
\* text only: the lines that are joined with CRLF.  Quoted-printable leaves
\* the characters of the text as they are and turns every LF into CRLF.
\* generated is what generateMessageId() returns when the message has no
\* messageId (part_006 271).
buildMessageData(message, generated) ==
  << << "From:", message.from >>, << "To:" >> \o message.to >>
    \o (IF message.cc # << >> THEN << << "Cc:" >> \o message.cc >> ELSE << >>)
    \o << << "Subject:" >>, << "Date:" >>,
          << "Message-ID:", "<",
             IF message.messageId # "" THEN message.messageId ELSE generated,
             ">" >>,
          << "MIME-Version:" >>, << "Content-Type:" >>,
          << "Content-Transfer-Encoding:" >>, << >> >>
    \o message.text

\* messageData.split('\n') (part_006 237): every line but the last keeps
\* the CR of its CRLF
SplitLF(data) ==
  [i \in 1..Len(data) |-> IF i < Len(data) THEN Append(data[i], "\r")
                                            ELSE data[i]]

\* a payload line sent as it is
stuffedLineAsIs(line) == line

\* stuffedLine (part_006 240)
stuffedLine(line) ==
  IF line # << >> /\ Head(line) = "." THEN << "." >> \o line ELSE line

\* sendMailFrom up to its await (part_006 197-200), after createEnvelope
\* (part_006 102)
sendMailFrom(w, t) ==
  LET envelope == createEnvelope(w.send[t].message)
  IN [sendCommand([w EXCEPT !.send[t].envelope = envelope.to,
                            !.send[t].sender = envelope.from,
                            !.address = envelope.from],
                  "MAIL", t)
        EXCEPT !.pc[t] = "mail"]

\* sendRcptTo up to its await (part_006 204-208), for recipient r of the
\* envelope
sendRcptTo(w, t, r) ==
  [sendCommand([w EXCEPT !.send[t].rcpt = r,
                          !.address = w.send[t].envelope[r]], "RCPT", t)
     EXCEPT !.pc[t] = "rcpt"]

\* sendData up to its first await (part_006 224-231)
sendData(w, t) == [sendCommand(w, "DATA", t) EXCEPT !.pc[t] = "data"]

\* sendCommand(stuffedLine) for line n of the message (part_006 238-241)
sendLine(w, t, n) ==
  [sendCommand([w EXCEPT !.send[t].line = n,
                          !.words = stuffedLine(w.send[t].lines[n])], "LINE", t)
     EXCEPT !.pc[t] = "line"]

\* new SMTPConnection(...) in SMTPClient.connect() (part_006 48-57): the
\* fields of the client's connection are those of a new object, nothing of
\* the old socket reaches it, the server starts a new session.  The callers
\* of the old connection must have ended.
newConnection(w) ==
  [w EXCEPT !.socket = "null", !.state = "CLOSED",
            !.capabilities = EmptyCapabilities, !.commandQueue = << >>,
            !.currentCommand = 0, !.responseBuffer = << >>,
            !.multilineResponse = FALSE, !.lastResponseCode = 0,
            !.destroyed = FALSE, !.listeners = {}, !.connTimer = FALSE,
            !.pendingWrites = 0, !.closePending = FALSE,
            !.bufferMarks = << >>, !.advertised = EmptyCapabilities,
            !.pc[ConnectTask] = "init", !.result[ConnectTask] = NoResult,
            !.awaiting[ConnectTask] = 0,
            !.server = [ mode |-> "greet", served |-> Len(w.cmds) ]]

\* send() that opens a new connection whenever the connection at hand has
\* been destroyed
SendCallRenewing(s) ==
  LET t == SendTask(s)
  IN /\ pc[t] = "init"
     /\ s <= env.sends
     /\ \A v \in Sends : v < s => pc[SendTask(v)] # "init"
     /\ \E m \in env.messages :
          LET w == [World EXCEPT !.send[t] = [NoSend EXCEPT !.message = m]]
          IN IF w.pc[ConnectTask] = "init"
             THEN Becomes([connect(w) EXCEPT !.pc[t] = "connecting"])
             ELSE IF w.state = "CLOSED" \/ w.destroyed
             THEN Becomes([connect(newConnection(w))
                             EXCEPT !.pc[t] = "connecting"])
             ELSE IF w.state # "READY"
             THEN Becomes([w EXCEPT !.pc[t] = "connected"])
             ELSE Becomes(sendMailFrom(w, t))

\* send() up to its first await (part_006 91-105); SMTPClient.connect()
\* (part_006 43-59) creates a connection when there is none or the one at
\* hand is CLOSED, and returns at once when it is in any other state.
SendCall(s) ==
  LET t == SendTask(s)
  IN /\ pc[t] = "init"
     /\ s <= env.sends
     /\ \A v \in Sends : v < s => pc[SendTask(v)] # "init"
     /\ \E m \in env.messages :
          LET w == [World EXCEPT !.send[t] = [NoSend EXCEPT !.message = m]]
          IN IF w.pc[ConnectTask] = "init"
             THEN Becomes([connect(w) EXCEPT !.pc[t] = "connecting"])
             ELSE IF w.state = "CLOSED"
             THEN Becomes([connect(newConnection(w))
                             EXCEPT !.pc[t] = "connecting"])
             ELSE IF w.state # "READY"
             THEN Becomes([w EXCEPT !.pc[t] = "connected"])
             ELSE Becomes(sendMailFrom(w, t))

\* SMTPClient.connect() after await connection.connect() (part_006 59-70),
\* without credentials
ClientConnected(s) ==
  LET t == SendTask(s)
  IN /\ pc[t] = "connecting"
     /\ result[ConnectTask].status # "pending"
     /\ LET w == World
        IN IF w.result[ConnectTask].status = "rejected"
           THEN Becomes(Throw(w, t, w.result[ConnectTask].err))
           ELSE IF ~w.secure /\ w.capabilities.starttls
           THEN Becomes([upgradeToTLS(w) EXCEPT !.pc[t] = "upgrading"])
           ELSE Becomes([w EXCEPT !.pc[t] = "connected"])

\* SMTPClient.connect() after await connection.upgradeToTLS() (part_006 63-70)
UpgradeSettled(s) ==
  LET t == SendTask(s)
  IN /\ pc[t] = "upgrading"
     /\ result[UpgradeTask].status # "pending"
     /\ LET w == World
        IN IF w.result[UpgradeTask].status = "rejected"
           THEN Becomes(Throw(w, t, w.result[UpgradeTask].err))
           ELSE Becomes([w EXCEPT !.pc[t] = "connected"])

\* send() after await this.connect() (part_006 96-105)
SendProceed(s) ==
  LET t == SendTask(s)
  IN /\ pc[t] = "connected"
     /\ Becomes(sendMailFrom(World, t))

\* The RCPT loop has ended (part_006 124-135).
afterRcptLoop(w, t) ==
  IF w.send[t].accepted = << >>
  THEN ThrowError(w, t, "ERECIPIENT", "All recipients were rejected")
  ELSE sendData(w, t)

\* send() going on to the recipients although MAIL FROM failed
MailSettledContinuing(s) ==
  LET t == SendTask(s)
  IN /\ pc[t] = "mail"
     /\ Settled(World, awaiting[t])
     /\ LET w == consumed(World, awaiting[t])
        IN IF w.send[t].envelope = << >>
           THEN Becomes(afterRcptLoop(w, t))
           ELSE Becomes(sendRcptTo(w, t, 1))

\* send() after MAIL FROM (part_006 105-113)
MailSettled(s) ==
  LET t == SendTask(s)
  IN /\ pc[t] = "mail"
     /\ Settled(World, awaiting[t])
     /\ LET c == cmds[awaiting[t]]
            w == consumed(World, awaiting[t])
        IN IF c.status = "rejected"
           THEN Becomes(Throw(w, t, Wrapped(c.err)))
           ELSE IF w.send[t].envelope = << >>
           THEN Becomes(afterRcptLoop(w, t))
           ELSE Becomes(sendRcptTo(w, t, 1))

\* the RCPT loop of send() leaving a failed recipient out of rejected
RcptSettledForgetting(s) ==
  LET t == SendTask(s)
  IN /\ pc[t] = "rcpt"
     /\ Settled(World, awaiting[t])
     /\ LET c == cmds[awaiting[t]]
            w == consumed(World, awaiting[t])
            r == w.send[t].rcpt
            n == Len(w.send[t].envelope)
            w1 == IF c.status = "resolved"
                  THEN [w EXCEPT !.send[t].accepted =
                                    Append(@, w.send[t].envelope[r])]
                  ELSE w
        IN IF c.status = "rejected" /\ w1.send[t].accepted = << >> /\ r = n
           THEN IF c.err = "EIO"
                THEN Becomes(Throw(w1, t, "EMESSAGE"))
                ELSE Becomes(ThrowError(w1, t, "ERECIPIENT", "Recipient rejected"))
           ELSE IF r < n
           THEN Becomes(sendRcptTo(w1, t, r + 1))
           ELSE Becomes(afterRcptLoop(w1, t))

\* the RCPT loop of send() after a RCPT TO (part_006 111-135, 204-222):
\* sendRcptTo turns a MailerError into INVALID_RECIPIENT "Recipient
\* rejected: <to>"; the loop rethrows it when the failed recipient is the
\* last one and none was accepted.
RcptSettled(s) ==
  LET t == SendTask(s)
  IN /\ pc[t] = "rcpt"
     /\ Settled(World, awaiting[t])
     /\ LET c == cmds[awaiting[t]]
            w == consumed(World, awaiting[t])
            r == w.send[t].rcpt
            n == Len(w.send[t].envelope)
            w1 == IF c.status = "resolved"
                  THEN [w EXCEPT !.send[t].accepted =
                                    Append(@, w.send[t].envelope[r])]
                  ELSE [w EXCEPT !.send[t].rejected =
                                    Append(@, w.send[t].envelope[r])]
        IN IF c.status = "rejected" /\ w1.send[t].accepted = << >> /\ r = n
           THEN IF c.err = "EIO"
                THEN Becomes(Throw(w1, t, "EMESSAGE"))
                ELSE Becomes(ThrowError(w1, t, "ERECIPIENT", "Recipient rejected"))
           ELSE IF r < n
           THEN Becomes(sendRcptTo(w1, t, r + 1))
           ELSE Becomes(afterRcptLoop(w1, t))

\* generateMessageId() (part_006 461-466): Date.now(), a random string and
\* the name of the client; what two calls return may or may not differ.
GeneratedIds == { "g1", "g2" }

\* The final responses that have a "queued as" fragment, and for each what
\* /queued as ([A-Za-z0-9]+)/ captures (part_006 249).
QueuedAs == ("queued as A1" :> "A1")

\* response.match(/queued as ([A-Za-z0-9]+)/) over the lines of the
\* response, '' for no match
queuedAs(msg) ==
  LET found == { i \in 1..Len(msg) : msg[i] \in DOMAIN QueuedAs }
  IN IF found = {} THEN ""
     ELSE QueuedAs[msg[CHOOSE i \in found : \A j \in found : i <= j]]

\* sendData after DATA: the message is composed and split, its first line
\* is sent (part_006 231-241)
DataSettled(s) ==
  LET t == SendTask(s)
  IN /\ pc[t] = "data"
     /\ Settled(World, awaiting[t])
     /\ LET c == cmds[awaiting[t]]
            w == consumed(World, awaiting[t])
        IN IF c.status = "rejected"
           THEN Becomes(Throw(w, t, Wrapped(c.err)))
           ELSE \E generated \in IF w.send[t].message.messageId = ""
                                  THEN GeneratedIds ELSE { "" } :
                  LET w1 == [w EXCEPT !.send[t].lines =
                               SplitLF(buildMessageData(w.send[t].message,
                                                        generated))]
                  IN Becomes(sendLine(w1, t, 1))

\* sendData after a payload line: the next line, or the final dot
\* (part_006 238-245)
LineSettled(s) ==
  LET t == SendTask(s)
  IN /\ pc[t] = "line"
     /\ Settled(World, awaiting[t])
     /\ LET c == cmds[awaiting[t]]
            w == consumed(World, awaiting[t])
        IN IF c.status = "rejected"
           THEN Becomes(Throw(w, t, Wrapped(c.err)))
           ELSE IF w.send[t].line < Len(w.send[t].lines)
           THEN Becomes(sendLine(w, t, w.send[t].line + 1))
           ELSE Becomes([sendCommand(w, ".", t) EXCEPT !.pc[t] = "dot"])

\* sendData after the final dot, and the return of send() (part_006 245-251,
\* 135-143)
DotSettled(s) ==
  LET t == SendTask(s)
  IN /\ pc[t] = "dot"
     /\ Settled(World, awaiting[t])
     /\ LET c == cmds[awaiting[t]]
            w == consumed(World, awaiting[t])
        IN IF c.status = "rejected"
           THEN Becomes(Throw(w, t, Wrapped(c.err)))
           ELSE \E generated \in IF queuedAs(c.msg) = ""
                                  THEN GeneratedIds ELSE { "" } :
                  Becomes(SettleTask(
                    [w EXCEPT !.pc[t] = "done",
                              !.send[t].response = c.msg,
                              !.send[t].messageId =
                                 IF queuedAs(c.msg) # "" THEN queuedAs(c.msg)
                                 ELSE generated],
                    t, "resolved", ""))

\* ---------------------------------------------------------------- the server

\* The command the server reads next: the oldest written line it has not
\* read yet.
Unread == { i \in 1..Len(cmds) : cmds[i].written /\ i > server.served }

NextUnread == CHOOSE i \in Unread : \A j \in Unread : i <= j

Ok == << Line(250, " ", "host") >>
Queued == << Line(250, " ", "queued as A1") >>
Failure == << Line(550, " ", "host") >>

\* The replies of an RFC 5321 server (4.1.1, 4.5.2; RFC 3207): one reply per
\* command, 354 to DATA, none to a line of the message, one after the final
\* dot.  The "lenient" server differs in two points: it also answers every
\* line of the message, and it may accept DATA with 250.
Replies(mode, line) ==
  IF mode = "data"
  THEN IF line = "." THEN { Ok, Queued, Failure }
       ELSE IF env.server = "lenient" THEN { Ok }
       ELSE { << >> }
  ELSE IF line = "EHLO"
       THEN { IF env.starttls /\ socket = "plain"
              THEN << Line(250, "-", "host"), Line(250, " ", "STARTTLS") >>
              ELSE Ok,
              Failure }
  ELSE IF line = "HELO" THEN { Ok }
  ELSE IF line = "STARTTLS" THEN { << Line(220, " ", "host") >> }
  ELSE IF line \in { "MAIL", "RCPT" } THEN { Ok, Failure }
  ELSE IF line = "DATA"
       THEN { << Line(354, " ", "host") >>, Failure }
              \cup (IF env.server = "lenient" THEN { Ok } ELSE {})
  ELSE { Failure }

ModeAfter(mode, line, reply) ==
  IF mode = "data"
  THEN IF line = "." THEN "cmd" ELSE "data"
  ELSE IF line = "DATA" /\ reply # Failure THEN "data" ELSE "cmd"

\* the 220 greeting of the server
ServerGreeting ==
  /\ ~Runnable
  /\ env.server # "any"
  /\ socket # "null"
  /\ "connect" \notin listeners
  /\ server.mode = "greet"
  /\ Becomes(processDataBuffer([World EXCEPT !.server.mode = "cmd"],
                               << Line(220, " ", "host") >>))

\* the server reads one line and answers it; the answer arrives as one
\* socket data event
ServerReply ==
  /\ ~Runnable
  /\ env.server # "any"
  /\ socket # "null"
  /\ server.mode # "greet"
  /\ pc[UpgradeTask] # "handshake"
  /\ Unread # {}
  /\ LET id == NextUnread
     IN \E reply \in Replies(server.mode, cmds[id].line) :
          Becomes(processDataBuffer(
                    [World EXCEPT !.server =
                       [ mode |-> ModeAfter(server.mode, cmds[id].line, reply),
                         served |-> id ]],
                    reply))

\* ---------------------------------------------------------------- send specification
InitSend ==
  /\ env \in SendEnvsOf(MaxSends, PlainMessages)
  /\ InitConnection

\* one send() call
InitSendOne ==
  /\ env \in SendEnvsOf(1, PlainMessages)
  /\ InitConnection

\* one send() call of a message with any of the address fields and texts
InitSendAny ==
  /\ env \in SendEnvsOf(1, AddressMessages \cup TextMessages \cup IdMessages
                              \cup DisplayMessages)
  /\ InitConnection

NextSend ==
  \/ \E s \in Sends : SendCall(s)
  \/ SocketConnect
  \/ ServerGreeting
  \/ ServerReply
  \/ \E t \in { ConnectTask, UpgradeTask } : EhloSettled(t)
  \/ \E t \in { ConnectTask, UpgradeTask } : HeloSettled(t)
  \/ StartTLSSettled
  \/ TlsHandshakeDone
  \/ \E s \in Sends : ClientConnected(s)
  \/ \E s \in Sends : UpgradeSettled(s)
  \/ \E s \in Sends : SendProceed(s)
  \/ \E s \in Sends : MailSettled(s)
  \/ \E s \in Sends : RcptSettled(s)
  \/ \E s \in Sends : DataSettled(s)
  \/ \E s \in Sends : LineSettled(s)
  \/ \E s \in Sends : DotSettled(s)

SpecSend == InitSend /\ [][NextSend]_vars

SpecSendAny == InitSendAny /\ [][NextSend]_vars

\* socket.on('timeout') (index.ts 207-217) armed by socket.setTimeout
\* (index.ts 156-158): the watchdog fires once the socket has been idle, that
\* is once the server has read and answered every line written to it.
SocketIdle ==
  /\ ~Runnable
  /\ env.server # "any"
  /\ socket # "null"
  /\ server.mode # "greet"
  /\ pc[UpgradeTask] # "handshake"
  /\ Unread = {}
  /\ LET w1 == [World EXCEPT !.emitted = @ \cup { "error:ECONNTIMEOUT" },
                             !.cause = "timeout"]
     IN Becomes(destroy(w1))

NextSendOne ==
  \/ NextSend
  \/ SocketIdle
  \/ SocketClose

\* The event loop runs every continuation, the server answers, the TLS
\* handshake completes, the idle watchdog fires on an idle socket.
SpecSendOneFair == InitSendOne /\ [][NextSendOne]_vars /\ WF_vars(NextSendOne)

\* ---------------------------------------------------------------- properties

Ids == 1..Len(cmds)

Pending(i) == cmds[i].status = "pending"

\* Written to a socket, callback not fired, and still held by the connection.
InFlight(i) == cmds[i].written /\ Pending(i) /\ cmds[i].droppedBy = "none"

\* C1: at most one command is outstanding at any moment: a command line is
\* written only when no command written earlier is still without its response
\* or failure, and every other request waits in the queue in the order the
\* requests were made, behind the command in flight.
C1_OneOutstanding ==
  /\ \A i \in Ids : cmds[i].written => cmds[i].alone
  /\ Cardinality({ i \in Ids : InFlight(i) }) <= 1
  /\ \A i \in Ids : InFlight(i) => currentCommand = i
  /\ commandQueue # << >> => currentCommand # 0
  /\ \A i \in 1..Len(commandQueue) :
       /\ commandQueue[i] > currentCommand
       /\ ~cmds[commandQueue[i]].written
       /\ \A j \in 1..Len(commandQueue) : i < j => commandQueue[i] < commandQueue[j]

\* C1 witness: one command is in flight and two further requests wait.
C1_Witness ==
  /\ currentCommand # 0
  /\ InFlight(currentCommand)
  /\ Len(commandQueue) >= 2

\* C2: commands resolve in FIFO order: when a command is written, the
\* callback of every command enqueued before it has fired, and a completed
\* response goes to the command enqueued first among the unsettled ones.
C2_FifoOrder ==
  /\ \A i \in Ids : cmds[i].written => cmds[i].inOrder
  /\ \A k \in 1..Len(delivered) : delivered[k].id = delivered[k].head

\* C2 witness: a response has just settled command A and the next command B
\* was written by the same step, with a third one still queued.
C2_Witness ==
  /\ delivered # << >>
  /\ ~Pending(delivered[1].id)
  /\ currentCommand > delivered[1].id
  /\ InFlight(currentCommand)
  /\ commandQueue # << >>

\* C3: against a server that follows RFC 5321, every send() that was called
\* eventually returns its result or throws its error; it does not stay
\* pending.
C3_SendTerminates ==
  \A s \in Sends :
    (env.server = "rfc" /\ pc[SendTask(s)] # "init")
      ~> (result[SendTask(s)].status # "pending")

\* C4: after the 220 reply to STARTTLS no command is written to the
\* plaintext socket.
C4_NoPlaintextAfterGoAhead ==
  \A i \in Ids : cmds[i].written /\ cmds[i].afterGoAhead => cmds[i].via = "tls"

\* C5: every command that is in flight or queued when quit(), a socket error
\* or the closing socket destroys the connection is rejected with
\* CONNECTION_FAILED.
C5_DestroyRejectsPending ==
  \A i \in Ids :
    cmds[i].droppedBy \in { "quit", "error", "close" } =>
      cmds[i].status = "rejected" /\ cmds[i].err = "ECONNECTION"

\* C6: when the socket idle timeout fires, every pending command is rejected
\* with CONNECTION_TIMEOUT, the socket is destroyed and a close notification
\* is emitted.
C6_TimeoutRejectsPending ==
  /\ \A i \in Ids :
       cmds[i].droppedBy = "timeout" =>
         cmds[i].status = "rejected" /\ cmds[i].err = "ECONNTIMEOUT"
  /\ "error:ECONNTIMEOUT" \in emitted =>
       socket = "null" /\ (closePending \/ "close" \in emitted)

\* C7: a command line is written only while the state is READY or SENDING.
C7_WritesOnlyWhenReady ==
  \A i \in Ids : cmds[i].written => cmds[i].atState \in { "READY", "SENDING" }

\* C8: after upgradeToTLS has succeeded the capability table holds exactly
\* what the post-upgrade EHLO reply advertised.
C8_CapabilitiesReset ==
  ( /\ pc[UpgradeTask] = "done"
    /\ result[UpgradeTask].status = "resolved"
    /\ cmds[awaiting[UpgradeTask]].line = "EHLO" )
  => capabilities = advertised

\* C9: the commands two send() calls write are not interleaved on the wire:
\* between two lines written for one send() no line of another send() is
\* written.
C9_SendsSerialized ==
  \A i, j, k \in Ids :
    ( /\ i < j /\ j < k
      /\ cmds[i].written /\ cmds[j].written /\ cmds[k].written
      /\ cmds[i].owner \in SendTasks /\ cmds[j].owner \in SendTasks
      /\ cmds[i].owner = cmds[k].owner )
    => cmds[j].owner = cmds[i].owner

\* C10: a response is delivered only with lines of one code, none of them
\* left over from before an earlier response, and its message is the texts
\* of exactly those lines.
C10_ResponseOfOneCode ==
  \A k \in 1..Len(delivered) :
    /\ Len(delivered[k].joined) = Len(delivered[k].msg)
    /\ \A n \in 1..Len(delivered[k].joined) :
         /\ delivered[k].joined[n].code = delivered[k].code
         /\ ~delivered[k].joined[n].stale

\* C11: a completed response with code c and message m settles the command
\* in flight: with 200 <= c <= 399 the command resolves with c and m,
\* otherwise it rejects with SMTP_ERROR carrying c and m; the request that was
\* first in the queue has then been written, after that settlement.
C11_ResponseSettles ==
  \A k \in 1..Len(delivered) :
    LET d == delivered[k]
        c == cmds[d.id]
    IN /\ c.code = d.code
       /\ c.msg = d.msg
       /\ (200 <= d.code /\ d.code <= 399) =>
             c.status = "resolved" /\ c.err = ""
       /\ ~(200 <= d.code /\ d.code <= 399) =>
             c.status = "rejected" /\ c.err = "ESMTP"
       /\ d.next # 0 =>
             /\ d.next > d.id
             /\ cmds[d.next].written
             /\ cmds[d.next].inOrder

\* C11 witness: one data event carried a 399 and a 400 reply; the first
\* resolved its command, the second rejected the command dispatched after
\* it, and a third request was written after that.
C11_Witness ==
  /\ Len(delivered) = 2
  /\ delivered[1].code = 399 /\ cmds[delivered[1].id].status = "resolved"
  /\ delivered[2].code = 400 /\ cmds[delivered[2].id].status = "rejected"
  /\ delivered[1].next = delivered[2].id
  /\ delivered[2].next # 0
  /\ cmds[delivered[2].next].written

\* ---------------------------------------------------------------- properties of send()

Range(f) == { f[i] : i \in 1..Len(f) }

\* The commands of one kind sent for send() call t, and among them the
\* RCPT TO commands for address a.
CommandsOf(t, line) == { i \in Ids : cmds[i].owner = t /\ cmds[i].line = line }

RcptOf(t, a) == { i \in CommandsOf(t, "RCPT") : cmds[i].rcpt = a }

\* The position of command i among the commands of its kind of its caller.
Rank(i) ==
  Cardinality({ j \in CommandsOf(cmds[i].owner, cmds[i].line) : j <= i })

Returned(t) == pc[t] = "done" /\ result[t].status = "resolved"

\* C12: when send() returns a result, RCPT TO was issued exactly once for
\* every envelope recipient, in envelope order; accepted is the subsequence
\* of the envelope whose RCPT TO succeeded, rejected the subsequence whose
\* RCPT TO failed with an SMTP error; the two are disjoint, together they
\* are the envelope, and accepted is not empty.
C12_RecipientsPartitioned ==
  \A t \in SendTasks :
    Returned(t) =>
      LET e == send[t].envelope
          Succeeded(a) == \E i \in RcptOf(t, a) : cmds[i].status = "resolved"
          Failed(a) == \E i \in RcptOf(t, a) :
                          cmds[i].status = "rejected" /\ cmds[i].err = "ESMTP"
      IN /\ Cardinality(CommandsOf(t, "RCPT")) = Len(e)
         /\ \A k \in 1..Len(e) :
              /\ Cardinality(RcptOf(t, e[k])) = 1
              /\ \A i \in RcptOf(t, e[k]) : Rank(i) = k
         /\ send[t].accepted = SelectSeq(e, Succeeded)
         /\ send[t].rejected = SelectSeq(e, Failed)
         /\ Range(send[t].accepted) \cap Range(send[t].rejected) = {}
         /\ Range(send[t].accepted) \cup Range(send[t].rejected) = Range(e)
         /\ Len(send[t].accepted) + Len(send[t].rejected) = Len(e)
         /\ send[t].accepted # << >>

\* C12 witness: a send() has returned with one recipient accepted and one
\* rejected, for a message that names an address twice.
C12_Witness ==
  \E t \in SendTasks :
    /\ Returned(t)
    /\ send[t].accepted # << >>
    /\ send[t].rejected # << >>
    /\ Len(send[t].message.to) + Len(send[t].message.cc)
         + Len(send[t].message.bcc) > Len(send[t].envelope)

\* C13: when every RCPT TO of a send() was rejected, or its envelope has no
\* recipient, send() fails with INVALID_RECIPIENT and the message "All
\* recipients were rejected", and no DATA was issued for it.
C13_AllRejected ==
  \A t \in SendTasks :
    ( /\ pc[t] = "done"
      /\ \E i \in CommandsOf(t, "MAIL") : cmds[i].status = "resolved"
      /\ send[t].rejected = send[t].envelope )
    => /\ result[t].status = "rejected"
       /\ result[t].err = "ERECIPIENT"
       /\ result[t].message = "All recipients were rejected"
       /\ CommandsOf(t, "DATA") = {}

\* C14: when MAIL FROM has failed, send() throws and nothing is sent for
\* that send() after the MAIL FROM.
C14_MailFailureAborts ==
  \A i \in Ids :
    ( /\ cmds[i].owner \in SendTasks
      /\ cmds[i].line = "MAIL"
      /\ cmds[i].status = "rejected" )
    => /\ \A j \in Ids : j > i => cmds[j].owner # cmds[i].owner
       /\ pc[cmds[i].owner] \in { "mail", "done" }
       /\ pc[cmds[i].owner] = "done" => result[cmds[i].owner].status = "rejected"

\* C14 witness: the MAIL FROM of a send() with two recipients was answered
\* with an error, and that send() has thrown the SMTP error.
C14_Witness ==
  \E i \in Ids :
    /\ cmds[i].owner \in SendTasks
    /\ cmds[i].line = "MAIL"
    /\ cmds[i].status = "rejected"
    /\ pc[cmds[i].owner] = "done"
    /\ result[cmds[i].owner].err = "ESMTP"
    /\ Len(send[cmds[i].owner].envelope) = 2

\* C15: a line of the message, or the final dot, is sent only after DATA was
\* answered with 354; after any other answer to DATA send() fails.
C15_PayloadOnlyAfter354 ==
  /\ \A i \in Ids :
       cmds[i].owner \in SendTasks /\ cmds[i].line \in { "LINE", "." } =>
         \E j \in CommandsOf(cmds[i].owner, "DATA") : j < i /\ cmds[j].code = 354
  /\ \A j \in Ids :
       ( /\ cmds[j].owner \in SendTasks
         /\ cmds[j].line = "DATA"
         /\ cmds[j].status # "pending"
         /\ cmds[j].code # 354
         /\ pc[cmds[j].owner] # "data" )
       => result[cmds[j].owner].status = "rejected"

\* C16: dot-stuffing.  A line of the message that begins with '.' is sent
\* with exactly one more '.' in front, every other line is sent as it is, no
\* line is sent as a single '.', and the final '.' is sent at most once,
\* after all lines of the message, and exactly once by a send() that returns.
C16_DotStuffing ==
  \A t \in SendTasks :
    LET lines == send[t].lines
    IN /\ \A i \in CommandsOf(t, "LINE") :
            /\ Rank(i) <= Len(lines)
            /\ LET line == lines[Rank(i)]
                   sent == cmds[i].text
               IN /\ IF line # << >> /\ line[1] = "."
                     THEN sent = << "." >> \o line
                     ELSE sent = line
                  /\ sent # << "." >>
       /\ Cardinality(CommandsOf(t, ".")) <= 1
       /\ \A d \in CommandsOf(t, ".") :
            /\ Cardinality(CommandsOf(t, "LINE")) = Len(lines)
            /\ \A i \in CommandsOf(t, "LINE") : i < d
       /\ Returned(t) => Cardinality(CommandsOf(t, ".")) = 1

\* C16 witness: a send() has returned whose message has a line that is a
\* single '.', not its last line, and a line that begins with another
\* character.
C16_Witness ==
  \E t \in SendTasks :
    /\ Returned(t)
    /\ \E k \in 1..Len(send[t].lines) : send[t].lines[k] = << ".", "\r" >>
    /\ \E i \in CommandsOf(t, "LINE") : cmds[i].text = << ".", ".", "\r" >>
    /\ \E i \in CommandsOf(t, "LINE") : cmds[i].text = << "a" >>

\* The addresses of a message given in bcc and in no other field.
BccOnly(m) == Range(m.bcc) \ (Range(m.to) \cup Range(m.cc) \cup { m.from })

BeyondRcptLoop(t) == pc[t] \in { "data", "line", "dot" } \/ Returned(t)

C18_AuthMasked ==
  \A i \in Ids :
    cmds[i].written /\ cmds[i].text # << >> /\ cmds[i].text[1] = "AUTH" =>
      /\ cmds[i].logged = << "AUTH", "***" >>
      /\ Range(cmds[i].logged) \cap Range(Tail(cmds[i].text)) = {}

\* C18 witness: an AUTH PLAIN line with its credentials and a NOOP have been
\* written; the command event carried the NOOP as it is.
C18_Witness ==
  \E i, j \in Ids :
    /\ cmds[i].written
    /\ cmds[i].text = << "AUTH", "PLAIN", "secret" >>
    /\ cmds[j].written
    /\ cmds[j].logged = << "NOOP" >>

\* The TLS handshake of upgradeToTLS has failed: STARTTLS was accepted and
\* the upgrade was rejected with TLS_FAILED.
HandshakeFailed ==
  /\ pc[UpgradeTask] = "done"
  /\ result[UpgradeTask] = Outcome("rejected", "ETLS", "")
  /\ awaiting[UpgradeTask] # 0
  /\ cmds[awaiting[UpgradeTask]].line = "STARTTLS"
  /\ cmds[awaiting[UpgradeTask]].status = "resolved"

\* C19: once the socket has reported an error, or the TLS upgrade has
\* failed, the connection is in state ERROR and has no socket, and it stays
\* so whatever happens later.
C19_FailureEndsInError ==
  ("error" \in emitted \/ HandshakeFailed) => state = "ERROR" /\ socket = "null"

\* C20: upgradeToTLS fails with TLS_FAILED in each of its cases: STARTTLS not
\* advertised or the connection already secure, an error reply to the
\* STARTTLS command, a failed TLS handshake.
C20_UpgradeFailsWithTlsFailed ==
  ( /\ pc[UpgradeTask] = "done"
    /\ result[UpgradeTask].status = "rejected"
    /\ \/ awaiting[UpgradeTask] = 0
       \/ /\ cmds[awaiting[UpgradeTask]].line = "STARTTLS"
          /\ \/ cmds[awaiting[UpgradeTask]].status = "resolved"
             \/ cmds[awaiting[UpgradeTask]].err = "ESMTP" )
  => result[UpgradeTask].err = "ETLS"

\* ---------------------------------------------------------------- properties of the handshake

\* The EHLO of caller t was answered with a reply outside 200..299.
EhloRefused(t) ==
  \E i \in 1..Len(cmds) :
    /\ cmds[i].owner = t
    /\ cmds[i].line = "EHLO"
    /\ cmds[i].code # 0
    /\ cmds[i].code \notin 200..299

\* C21: for each EHLO (of connect() or after STARTTLS) answered with a
\* non-2xx reply the connection sends HELO exactly once and no further EHLO
\* or HELO; if HELO succeeds the state becomes READY with an empty
\* capability table, if HELO fails the handshake fails and the state does
\* not become READY.
C21_HeloFallback ==
  [][ \A t \in { ConnectTask, UpgradeTask } :
        /\ (EhloRefused(t) /\ pc[t] = "ehlo" /\ pc'[t] # "ehlo") =>
             /\ pc'[t] = "helo"
             /\ Len(cmds') = Len(cmds) + 1
             /\ cmds'[Len(cmds')].line = "HELO"
             /\ cmds'[Len(cmds')].owner = t
        /\ (EhloRefused(t) /\ pc[t] \in { "helo", "done" }) =>
             \A i \in (Len(cmds) + 1)..Len(cmds') :
               cmds'[i].owner = t => cmds'[i].line \notin { "EHLO", "HELO" }
        /\ (EhloRefused(t) /\ pc[t] = "helo" /\ pc'[t] = "done") =>
             IF cmds[awaiting[t]].status = "resolved"
             THEN /\ state' = "READY"
                  /\ capabilities' = EmptyCapabilities
                  /\ result'[t].status = "resolved"
             ELSE /\ state' # "READY"
                  /\ result'[t].status = "rejected"
    ]_vars

\* ---------------------------------------------------------------- SMTPAuth

\* String.toUpperCase() of the names of the mechanisms
toUpperCase(name) ==
  CASE name = "plain" -> "PLAIN"
    [] name = "login" -> "LOGIN"
    [] name = "cram-md5" -> "CRAM-MD5"
    [] name = "xoauth2" -> "XOAUTH2"
    [] OTHER -> name

\* What selectAuthMethod returns, or the message of what it throws.
Selected(type) == [ type |-> type, message |-> "" ]

NotSelected(message) == [ type |-> "", message |-> message ]

\* selectAuthMethod that prefers PLAIN to LOGIN to CRAM-MD5
selectAuthMethodPlainFirst(credentials, supportedMethods) ==
  LET upperMethods == { toUpperCase(supportedMethods[i]) :
                          i \in 1..Len(supportedMethods) }
  IN IF credentials.type # ""
     THEN IF toUpperCase(credentials.type) \notin upperMethods
          THEN NotSelected("Requested auth type not supported by server")
          ELSE Selected(credentials.type)
     ELSE IF credentials.accessToken # "" /\ "XOAUTH2" \in upperMethods
          THEN Selected("xoauth2")
     ELSE IF "PLAIN" \in upperMethods THEN Selected("plain")
     ELSE IF "LOGIN" \in upperMethods THEN Selected("login")
     ELSE IF "CRAM-MD5" \in upperMethods THEN Selected("cram-md5")
     ELSE NotSelected("No compatible authentication method found")

\* selectAuthMethod(credentials, supportedMethods) (SMTPAuth.ts 51-94)
selectAuthMethod(credentials, supportedMethods) ==
  LET upperMethods == { toUpperCase(supportedMethods[i]) :
                          i \in 1..Len(supportedMethods) }
  IN IF credentials.type # ""
     THEN IF toUpperCase(credentials.type) \notin upperMethods
          THEN NotSelected("Requested auth type not supported by server")
          ELSE Selected(credentials.type)
     ELSE IF credentials.accessToken # "" /\ "XOAUTH2" \in upperMethods
          THEN Selected("xoauth2")
     ELSE IF "CRAM-MD5" \in upperMethods THEN Selected("cram-md5")
     ELSE IF "LOGIN" \in upperMethods THEN Selected("login")
     ELSE IF "PLAIN" \in upperMethods THEN Selected("plain")
     ELSE NotSelected("No compatible authentication method found")

\* Buffer.from(string, 'utf-8').toString('base64') of the strings the
\* mechanisms encode, a string given as its parts: NUL is \x00, SOH is \x01.
base64 ==
  (<< "u" >> :> "dQ==")
    @@ (<< "p" >> :> "cA==")
    @@ (<< "NUL", "u", "NUL", "p" >> :> "AHUAcA==")
    @@ (<< "user=", "u", "SOH", "auth=Bearer ", "k", "SOH", "SOH" >>
          :> "dXNlcj11AWF1dGg9QmVhcmVyIGsBAQ==")
    @@ (<< "u", " ", "73aaf3df362d74db692f9f41613fe78a" >>
          :> "dSA3M2FhZjNkZjM2MmQ3NGRiNjkyZjlmNDE2MTNmZTc4YQ==")

\* Buffer.from(challenge, 'base64').toString('utf-8') (SMTPAuth.ts 195)
decodeChallenge == ("PDEyMzQ+" :> "<1234>")

\* createHmac('md5', pass).update(challenge).digest('hex') (SMTPAuth.ts 201-203)
hmacMd5 == (<< "p", "<1234>" >> :> "73aaf3df362d74db692f9f41613fe78a")

\* error.response of the MailerError handleResponse makes (index.ts 272-277)
ResponseOf(c) ==
  IF c.err = "ESMTP" THEN [ code |-> c.code, text |-> c.msg ] ELSE NoResponse

\* throw new MailerError(message, AUTH_FAILED, statusCode, response, solution)
ThrowAuth(w, message, statusCode, response, solution) ==
  [w EXCEPT !.pc[AuthTask] = "done",
            !.result[AuthTask] =
               [Outcome("rejected", "EAUTH", message) EXCEPT
                  !.statusCode = statusCode, !.response = response,
                  !.solution = solution]]

\* a catch block that rethrows the error of the connection as it is
CaughtAsIs(w, c, message, solution) == Throw(w, AuthTask, c.err)

\* The catch blocks of the mechanisms (SMTPAuth.ts 106-117, 135-146,
\* 210-221, 249-270): a MailerError is wrapped, any other error rethrown.
Caught(w, c, message, solution) ==
  IF c.err # "EIO"
  THEN ThrowAuth(w, message, c.code, ResponseOf(c), solution)
  ELSE Throw(w, AuthTask, c.err)

\* sendCommand of a line of a SASL exchange, up to the await
sendAuth(w, line, words, at) ==
  [sendCommand([w EXCEPT !.words = words], line, AuthTask)
     EXCEPT !.pc[AuthTask] = at]

\* authPlain up to its await (SMTPAuth.ts 96-105)
authPlain(w, credentials) ==
  IF credentials.pass = ""
  THEN ThrowAuth(w, "Password required for PLAIN authentication", 0,
                 NoResponse, "")
  ELSE sendAuth(w, "AUTH",
                << "AUTH", "PLAIN",
                   base64[<< "NUL", credentials.user, "NUL", credentials.pass >>] >>,
                "plain")

\* authLogin that does not look at the password before it sends AUTH LOGIN
authLoginUnchecked(w, credentials) ==
  sendAuth(w, "AUTH", << "AUTH", "LOGIN" >>, "login")

\* authLogin up to its first await (SMTPAuth.ts 120-126)
authLogin(w, credentials) ==
  IF credentials.pass = ""
  THEN ThrowAuth(w, "Password required for LOGIN authentication", 0,
                 NoResponse, "")
  ELSE sendAuth(w, "AUTH", << "AUTH", "LOGIN" >>, "login")

\* authCramMd5 up to its first await (SMTPAuth.ts 149-158)
authCramMd5(w, credentials) ==
  IF credentials.pass = ""
  THEN ThrowAuth(w, "Password required for CRAM-MD5 authentication", 0,
                 NoResponse, "")
  ELSE sendAuth(w, "AUTH", << "AUTH", "CRAM-MD5" >>, "cram")

\* authXOAuth2 up to its first await (SMTPAuth.ts 224-243)
authXOAuth2(w, credentials) ==
  IF credentials.accessToken = ""
  THEN ThrowAuth(w, "Access token required for XOAUTH2 authentication", 0,
                 NoResponse, "")
  ELSE sendAuth(w, "AUTH",
                << "AUTH", "XOAUTH2",
                   base64[<< "user=", credentials.user, "SOH", "auth=Bearer ",
                             credentials.accessToken, "SOH", "SOH" >>] >>,
                "xoauth2")

\* authenticate(credentials) up to the first await of the mechanism
\* (SMTPAuth.ts 15-49)
authenticate(w, credentials) ==
  IF w.capabilities.auth = << >>
  THEN ThrowAuth(w, "Server does not support authentication", 0, NoResponse,
                 "Use a server that supports authentication or remove auth from options")
  ELSE LET authType == selectAuthMethod(credentials, w.capabilities.auth)
       IN IF authType.type = ""
          THEN ThrowAuth(w, authType.message, 0, NoResponse, "Server supports")
          ELSE CASE authType.type = "plain" -> authPlain(w, credentials)
                 [] authType.type = "login" -> authLogin(w, credentials)
                 [] authType.type = "cram-md5" -> authCramMd5(w, credentials)
                 [] authType.type = "xoauth2" -> authXOAuth2(w, credentials)
                 [] OTHER -> ThrowAuth(w, "Unsupported authentication type", 0,
                                       NoResponse, "")

Authenticated(w) ==
  SettleTask([w EXCEPT !.pc[AuthTask] = "done"], AuthTask, "resolved", "")

\* authPlain after its await (SMTPAuth.ts 105-118)
PlainSettled ==
  /\ pc[AuthTask] = "plain"
  /\ Settled(World, awaiting[AuthTask])
  /\ LET c == cmds[awaiting[AuthTask]]
         w == consumed(World, awaiting[AuthTask])
     IN IF c.status = "resolved"
        THEN Becomes(Authenticated(w))
        ELSE Becomes(Caught(w, c, "Authentication failed",
                            "Check username and password"))

\* authLogin after each of its awaits (SMTPAuth.ts 126-147)
LoginSettled ==
  /\ pc[AuthTask] \in { "login", "username", "password" }
  /\ Settled(World, awaiting[AuthTask])
  /\ LET c == cmds[awaiting[AuthTask]]
         w == consumed(World, awaiting[AuthTask])
     IN IF c.status = "rejected"
        THEN Becomes(Caught(w, c, "Authentication failed",
                            "Check username and password"))
        ELSE IF pc[AuthTask] = "login"
        THEN Becomes(sendAuth(w, "REPLY", << base64[<< env.auth.user >>] >>,
                              "username"))
        ELSE IF pc[AuthTask] = "username"
        THEN Becomes(sendAuth(w, "REPLY", << base64[<< env.auth.pass >>] >>,
                              "password"))
        ELSE Becomes(Authenticated(w))

\* Texts that are at least 8 characters of the base64 alphabet.
Base64Like == { "PDEyMzQ+" }

\* The challenge authCramMd5 finds in the response (SMTPAuth.ts 160-188):
\* what follows "334 " when the response is one line that has more than
\* its code, else the first later line that looks like base64, else ''.
challengeOf(c) ==
  IF c.code = 334 /\ Len(c.msg) = 1 /\ c.msg[1] # ""
  THEN c.msg[1]
  ELSE LET later == { i \in 2..Len(c.msg) : c.msg[i] \in Base64Like }
       IN IF later = {} THEN ""
          ELSE c.msg[CHOOSE i \in later : \A j \in later : i <= j]

\* authCramMd5 after each of its awaits (SMTPAuth.ts 158-222); the error
\* thrown for a missing challenge is caught by the catch block below it.
CramSettled ==
  /\ pc[AuthTask] \in { "cram", "response" }
  /\ Settled(World, awaiting[AuthTask])
  /\ LET c == cmds[awaiting[AuthTask]]
         w == consumed(World, awaiting[AuthTask])
     IN IF c.status = "rejected"
        THEN Becomes(Caught(w, c, "Authentication failed",
                            "Check username and password"))
        ELSE IF pc[AuthTask] = "response"
        THEN Becomes(Authenticated(w))
        ELSE IF challengeOf(c) = ""
        THEN Becomes(ThrowAuth(w, "Authentication failed", 0, NoResponse,
                               "Check username and password"))
        ELSE Becomes(sendAuth(w, "REPLY",
               << base64[<< env.auth.user, " ",
                            hmacMd5[<< env.auth.pass,
                                       decodeChallenge[challengeOf(c)] >>] >>] >>,
               "response"))

\* authXOAuth2 after each of its awaits (SMTPAuth.ts 243-273)
XOAuth2Settled ==
  /\ pc[AuthTask] \in { "xoauth2", "retry" }
  /\ Settled(World, awaiting[AuthTask])
  /\ LET c == cmds[awaiting[AuthTask]]
         w == consumed(World, awaiting[AuthTask])
     IN IF c.status = "resolved"
        THEN Becomes(Authenticated(w))
        ELSE IF pc[AuthTask] = "xoauth2" /\ c.err # "EIO" /\ c.code = 334
        THEN Becomes(sendAuth(w, "REPLY", << >>, "retry"))
        ELSE Becomes(Caught(w, c, "OAuth2 authentication failed",
                            "Check access token validity and scopes"))

\* ---------------------------------------------------------------- SMTPClient.verify()

\* return value from an async function
Return(w, t, value) ==
  [w EXCEPT !.pc[t] = "done",
            !.result[t] = [Outcome("resolved", "", "") EXCEPT !.value = value]]

\* verify() after connect() has returned: NOOP (part_006 488-491)
sendNoop(w, t) == [sendCommand(w, "NOOP", t) EXCEPT !.pc[t] = "noop"]

\* SMTPClient.connect() once the connection is up and upgraded: authenticate
\* when credentials are configured (part_006 66-70)
afterUpgrade(w, t) ==
  IF w.env.auth # NoAuth
  THEN [authenticate(w, w.env.auth) EXCEPT !.pc[t] = "authenticating"]
  ELSE sendNoop(w, t)

\* verify() up to await connection.connect() (part_006 485-487, 43-59)
VerifyCall ==
  /\ pc[VerifyTask] = "init"
  /\ env.server = "auth"
  /\ Becomes([connect(World) EXCEPT !.pc[VerifyTask] = "connecting"])

\* SMTPClient.connect() after await connection.connect() (part_006 59-70),
\* called by verify()
VerifyConnected ==
  /\ pc[VerifyTask] = "connecting"
  /\ result[ConnectTask].status # "pending"
  /\ LET w == World
     IN IF w.result[ConnectTask].status = "rejected"
        THEN Becomes(Return(w, VerifyTask, "false"))
        ELSE IF ~w.secure /\ w.capabilities.starttls
        THEN Becomes([upgradeToTLS(w) EXCEPT !.pc[VerifyTask] = "upgrading"])
        ELSE Becomes(afterUpgrade(w, VerifyTask))

\* SMTPClient.connect() after await connection.upgradeToTLS() (part_006 63-70)
VerifyUpgraded ==
  /\ pc[VerifyTask] = "upgrading"
  /\ result[UpgradeTask].status # "pending"
  /\ LET w == World
     IN IF w.result[UpgradeTask].status = "rejected"
        THEN Becomes(Return(w, VerifyTask, "false"))
        ELSE Becomes(afterUpgrade(w, VerifyTask))

\* SMTPClient.connect() after await this.auth.authenticate (part_006 69),
\* then verify() (part_006 488-491)
VerifyAuthenticated ==
  /\ pc[VerifyTask] = "authenticating"
  /\ result[AuthTask].status # "pending"
  /\ LET w == World
     IN IF w.result[AuthTask].status = "rejected"
        THEN Becomes(Return(w, VerifyTask, "false"))
        ELSE Becomes(sendNoop(w, VerifyTask))

\* verify() without its catch: the error of NOOP is thrown to the caller
NoopSettledThrowing ==
  /\ pc[VerifyTask] = "noop"
  /\ Settled(World, awaiting[VerifyTask])
  /\ LET c == cmds[awaiting[VerifyTask]]
         w == consumed(World, awaiting[VerifyTask])
     IN IF c.status = "resolved"
        THEN Becomes(Return(w, VerifyTask, "true"))
        ELSE Becomes(Throw(w, VerifyTask, c.err))

\* verify() after await sendCommand('NOOP') (part_006 491-495)
NoopSettled ==
  /\ pc[VerifyTask] = "noop"
  /\ Settled(World, awaiting[VerifyTask])
  /\ LET c == cmds[awaiting[VerifyTask]]
         w == consumed(World, awaiting[VerifyTask])
     IN IF c.status = "resolved"
        THEN Becomes(Return(w, VerifyTask, "true"))
        ELSE Becomes(Return(w, VerifyTask, "false"))

\* ---------------------------------------------------------------- the submission server

Accepted == << Line(235, " ", "accepted") >>
Denied == << Line(535, " ", "denied") >>
Continue(text) == << Line(334, " ", text) >>
Intermediate == << Line(354, " ", "host") >>

\* The EHLO reply of a server with the AUTH extension (RFC 4954): its name,
\* STARTTLS on a plaintext transport, the AUTH line.
EhloReply ==
  LET texts == << "host" >>
                 \o (IF env.starttls /\ socket = "plain"
                     THEN << "STARTTLS" >> ELSE << >>)
                 \o (IF env.advertise # "" THEN << env.advertise >> ELSE << >>)
  IN [i \in 1..Len(texts) |->
        Line(250, IF i = Len(texts) THEN " " ELSE "-", texts[i])]

Answer(reply, mode) == [ reply |-> reply, mode |-> mode ]

\* The answers of the server to command c, and the mode each leaves it in:
\* the SASL exchanges of RFC 4954 and of XOAUTH2, where 334 asks for the next
\* line of the exchange; any of success, intermediate and failure to NOOP.
\* A server may also answer a step of LOGIN with 250 where 334 is due.
AuthReplies(mode, c) ==
  IF mode = "username"
  THEN { Answer(Continue("UGFzc3dvcmQ6"), "password"), Answer(Ok, "cmd"),
         Answer(Denied, "cmd") }
  ELSE IF mode \in { "password", "response", "oauth" }
  THEN { Answer(Accepted, "cmd"), Answer(Denied, "cmd") }
  ELSE IF c.line = "EHLO"
  THEN { Answer(EhloReply, "cmd"), Answer(Failure, "cmd") }
  ELSE IF c.line = "HELO"
  THEN { Answer(Ok, "cmd"), Answer(Failure, "cmd") }
  ELSE IF c.line = "STARTTLS"
  THEN { Answer(<< Line(220, " ", "host") >>, "cmd"), Answer(Failure, "cmd") }
  ELSE IF c.line = "NOOP"
  THEN { Answer(Ok, "cmd"), Answer(Intermediate, "cmd"), Answer(Failure, "cmd") }
  ELSE IF c.line = "AUTH"
  THEN CASE c.text[2] = "PLAIN" ->
              { Answer(Accepted, "cmd"), Answer(Denied, "cmd") }
         [] c.text[2] = "LOGIN" ->
              { Answer(Continue("VXNlcm5hbWU6"), "username"),
                Answer(Ok, "username"),
                Answer(Denied, "cmd") }
         [] c.text[2] = "CRAM-MD5" ->
              { Answer(Continue("PDEyMzQ+"), "response"),
                Answer(Continue(""), "response"),
                Answer(Denied, "cmd") }
         [] c.text[2] = "XOAUTH2" ->
              { Answer(Accepted, "cmd"),
                Answer(Continue("eyJzdGF0dXMiOiI0MDEifQ=="), "oauth"),
                Answer(Denied, "cmd") }
         [] OTHER -> { Answer(Failure, "cmd") }
  ELSE { Answer(Failure, "cmd") }

\* the server reads one line and answers it; the answer arrives as one
\* socket data event
AuthServerReply ==
  /\ ~Runnable
  /\ env.server = "auth"
  /\ socket # "null"
  /\ server.mode # "greet"
  /\ pc[UpgradeTask] # "handshake"
  /\ Unread # {}
  /\ LET id == NextUnread
     IN \E a \in AuthReplies(server.mode, cmds[id]) :
          Becomes(processDataBuffer(
                    [World EXCEPT !.server = [ mode |-> a.mode, served |-> id ]],
                    a.reply))

\* ---------------------------------------------------------------- verify specification

\* The credentials a client is configured with.
CredentialSet ==
  { Credentials(type, "u", pass, accessToken) :
      type \in { "", "plain", "login", "cram-md5", "xoauth2" },
      pass \in { "", "p" },
      accessToken \in { "", "k" } }

\* A server with the AUTH extension that advertises the given AUTH line
\* ('' for none), a client with the given options.auth.
AuthEnvironment(starttls, credentials, advertise) ==
  [ server |-> "auth", lines |-> {}, users |-> 0, quit |-> FALSE,
    secure |-> FALSE, faults |-> {}, starttls |-> starttls, sends |-> 0,
    messages |-> {}, commands |-> {}, auth |-> credentials,
    advertise |-> advertise ]

AuthEnvs ==
  { AuthEnvironment(starttls, credentials, advertise) :
      starttls \in BOOLEAN,
      credentials \in CredentialSet \cup { NoAuth },
      advertise \in DOMAIN AuthMethods \cup { "" } }

InitAuth ==
  /\ env \in AuthEnvs
  /\ InitConnection

NextAuth ==
  \/ VerifyCall
  \/ SocketConnect
  \/ ServerGreeting
  \/ AuthServerReply
  \/ \E t \in { ConnectTask, UpgradeTask } : EhloSettled(t)
  \/ \E t \in { ConnectTask, UpgradeTask } : HeloSettled(t)
  \/ StartTLSSettled
  \/ TlsHandshakeDone
  \/ VerifyConnected
  \/ VerifyUpgraded
  \/ PlainSettled
  \/ LoginSettled
  \/ CramSettled
  \/ XOAuth2Settled
  \/ VerifyAuthenticated
  \/ NoopSettled

SpecAuth == InitAuth /\ [][NextAuth]_vars

\* ---------------------------------------------------------------- properties of authenticate()

\* The commands authenticate() has sent that begin a SASL exchange with the
\* given mechanism, and the lines it has sent to continue an exchange.
AuthExchanges(mechanism) ==
  { i \in CommandsOf(AuthTask, "AUTH") : cmds[i].text[2] = mechanism }

AuthReplyLines == CommandsOf(AuthTask, "REPLY")

\* C22: XOAUTH2 on a real connection: when the server answers AUTH XOAUTH2
\* with status 334 the client sends an empty line, and authenticate()
\* succeeds only if the reply to that empty line is a success and fails with
\* AUTH_FAILED if it is an error.
C22_XOAuth2Retry ==
  \A i \in AuthExchanges("XOAUTH2") :
    (cmds[i].code = 334 /\ pc[AuthTask] # "xoauth2") =>
      \E j \in AuthReplyLines :
        /\ j > i
        /\ cmds[j].text = << >>
        /\ cmds[j].written
        /\ pc[AuthTask] = "done" =>
             /\ result[AuthTask].status = "resolved" => cmds[j].status = "resolved"
             /\ cmds[j].err = "ESMTP" =>
                  /\ result[AuthTask].status = "rejected"
                  /\ result[AuthTask].err = "EAUTH"

\* The mechanism of the exchange command i of authenticate() belongs to: the
\* one named by the last AUTH line up to i.
MechanismOf(i) ==
  LET last == CHOOSE j \in CommandsOf(AuthTask, "AUTH") :
                /\ j <= i
                /\ \A k \in CommandsOf(AuthTask, "AUTH") : k <= i => k <= j
  IN cmds[last].text[2]

SolutionOf(mechanism) ==
  IF mechanism = "XOAUTH2" THEN "Check access token validity and scopes"
  ELSE "Check username and password"

\* C23: whenever the server rejects a step of PLAIN, LOGIN, CRAM-MD5 or
\* XOAUTH2 with an SMTP error, authenticate() fails with AUTH_FAILED whose
\* statusCode and response are those of the rejection, with the solution
\* "Check username and password" for the password mechanisms and "Check
\* access token validity and scopes" for XOAUTH2.
C23_RejectionWrapped ==
  [][ \A i \in Ids :
        ( /\ cmds[i].owner = AuthTask
          /\ cmds[i].err = "ESMTP"
          /\ awaiting[AuthTask] = i
          /\ pc[AuthTask] # "done"
          /\ pc'[AuthTask] # pc[AuthTask] )
        => /\ pc'[AuthTask] = "done"
           /\ result'[AuthTask].status = "rejected"
           /\ result'[AuthTask].err = "EAUTH"
           /\ result'[AuthTask].statusCode = cmds[i].code
           /\ result'[AuthTask].response =
                [ code |-> cmds[i].code, text |-> cmds[i].msg ]
           /\ result'[AuthTask].solution = SolutionOf(MechanismOf(i))
    ]_vars

\* C23 witness: the server has answered the password line of a LOGIN
\* exchange with 535, and authenticate() has failed with that reply.
C23_Witness ==
  \E i \in AuthReplyLines :
    /\ MechanismOf(i) = "LOGIN"
    /\ Rank(i) = 2
    /\ cmds[i].err = "ESMTP"
    /\ pc[AuthTask] = "done"
    /\ result[AuthTask].statusCode = 535
    /\ result[AuthTask].response = [ code |-> 535, text |-> << "denied" >> ]

\* authenticate() has been called.
AuthCalled == pc[AuthTask] # "init"

\* The mechanisms the capability table advertises, and those among them the
\* credentials can be used with.
AdvertisedMechanisms == Range(capabilities.auth)

UsableMechanisms ==
  { m \in AdvertisedMechanisms :
      \/ m \in { "CRAM-MD5", "LOGIN", "PLAIN" }
      \/ m = "XOAUTH2" /\ env.auth.accessToken # "" }

\* The secret the selected mechanism needs is missing.
SecretMissing ==
  LET type == selectAuthMethod(env.auth, capabilities.auth).type
  IN \/ type \in { "plain", "login", "cram-md5" } /\ env.auth.pass = ""
     \/ type = "xoauth2" /\ env.auth.accessToken = ""

\* C24: authenticate() writes nothing when its preconditions fail: when the
\* capability table advertises no auth mechanism, when the requested
\* mechanism or any usable one is not advertised, or when the secret of the
\* selected mechanism is missing, it fails with AUTH_FAILED and has sent no
\* command.
C24_NothingSentOnFailedPrecondition ==
  ( /\ AuthCalled
    /\ \/ AdvertisedMechanisms = {}
       \/ env.auth.type # "" /\ toUpperCase(env.auth.type) \notin AdvertisedMechanisms
       \/ env.auth.type = "" /\ UsableMechanisms = {}
       \/ SecretMissing )
  => /\ pc[AuthTask] = "done"
     /\ result[AuthTask].status = "rejected"
     /\ result[AuthTask].err = "EAUTH"
     /\ \A i \in Ids : cmds[i].owner # AuthTask

\* C24 witness: XOAUTH2 was requested and is advertised, the credentials
\* have a password and no access token, and authenticate() has failed.
C24_Witness ==
  /\ AuthCalled
  /\ env.auth.type = "xoauth2"
  /\ "XOAUTH2" \in AdvertisedMechanisms
  /\ env.auth.pass # ""
  /\ env.auth.accessToken = ""
  /\ result[AuthTask].status = "rejected"

\* The mechanism authenticate() went on with, as its caller and the server
\* see it: the mechanism of its first AUTH line, or the one named by the
\* error it threw before sending anything; "AUTH_FAILED" when the error is
\* one of the two selectAuthMethod throws.
MechanismTaken ==
  IF CommandsOf(AuthTask, "AUTH") # {}
  THEN LET first == CHOOSE i \in CommandsOf(AuthTask, "AUTH") :
                      \A j \in CommandsOf(AuthTask, "AUTH") : i <= j
       IN cmds[first].text[2]
  ELSE LET message == result[AuthTask].message
       IN CASE message = "Password required for PLAIN authentication" -> "PLAIN"
            [] message = "Password required for LOGIN authentication" -> "LOGIN"
            [] message = "Password required for CRAM-MD5 authentication" -> "CRAM-MD5"
            [] message = "Access token required for XOAUTH2 authentication" -> "XOAUTH2"
            [] message \in { "Requested auth type not supported by server",
                             "No compatible authentication method found" }
                 /\ result[AuthTask].err = "EAUTH" -> "AUTH_FAILED"
            [] OTHER -> "none"

\* C25: mechanism selection, for every credentials record and advertised
\* set: a requested type is selected if and only if the server advertises
\* it, names compared without regard to case, otherwise AUTH_FAILED; with no
\* requested type, XOAUTH2 when an access token is given and XOAUTH2 is
\* advertised, else the first advertised of CRAM-MD5, LOGIN, PLAIN; when
\* none applies, AUTH_FAILED.
C25_MechanismSelection ==
  (AuthCalled /\ AdvertisedMechanisms # {}) =>
    LET A == AdvertisedMechanisms
        type == env.auth.type
    IN MechanismTaken =
         IF type # ""
         THEN IF \E m \in A : toUpperCase(m) = toUpperCase(type)
              THEN toUpperCase(type) ELSE "AUTH_FAILED"
         ELSE IF env.auth.accessToken # "" /\ "XOAUTH2" \in A THEN "XOAUTH2"
         ELSE IF "CRAM-MD5" \in A THEN "CRAM-MD5"
         ELSE IF "LOGIN" \in A THEN "LOGIN"
         ELSE IF "PLAIN" \in A THEN "PLAIN"
         ELSE "AUTH_FAILED"

\* C25 witness: no type was requested, the server advertised PLAIN, LOGIN
\* and CRAM-MD5 in that order, and the exchange began with AUTH CRAM-MD5.
C25_Witness ==
  /\ env.auth.type = ""
  /\ env.advertise = "AUTH PLAIN LOGIN CRAM-MD5"
  /\ \E i \in CommandsOf(AuthTask, "AUTH") : cmds[i].text[2] = "CRAM-MD5"

\* ---------------------------------------------------------------- properties of the result of send()

\* The ids send() call t has transmitted in a Message-ID header line.
HeaderIds(t) ==
  { cmds[i].text[3] :
      i \in { j \in CommandsOf(t, "LINE") :
                cmds[j].text # << >> /\ cmds[j].text[1] = "Message-ID:" } }

\* C26: the messageId of a send result is the token that follows "queued as"
\* in the server's final response when that fragment is present; otherwise
\* it is the id placed in the Message-ID header of the payload that was
\* transmitted, which is the caller's messageId when one was supplied.
C26_MessageId ==
  \A t \in SendTasks :
    Returned(t) =>
      LET final == send[t].response
          queued == { i \in 1..Len(final) : final[i] \in DOMAIN QueuedAs }
      IN IF queued # {}
         THEN \E i \in queued : send[t].messageId = QueuedAs[final[i]]
         ELSE /\ send[t].messageId \in HeaderIds(t)
              /\ send[t].message.messageId # "" =>
                   send[t].messageId = send[t].message.messageId

\* The bare address of every address string: the part inside the angle
\* brackets when there is one, else the whole string.
BareAddress ==
  [ a \in { "s", "x", "y", "z", "N <s>", "N <x>", "<y>" } |->
      CASE a = "N <s>" -> "s"
        [] a = "N <x>" -> "x"
        [] a = "<y>" -> "y"
        [] OTHER -> a ]

\* The index of the first occurrence of a in list.
FirstIndex(list, a) ==
  CHOOSE i \in 1..Len(list) :
    list[i] = a /\ \A j \in 1..(i - 1) : list[j] # a

\* C27: the envelope recipient list is the concatenation of the bare
\* addresses of to, then cc, then bcc, with duplicates removed and the order
\* of first occurrence kept; the envelope sender is the bare address of from,
\* and it is the address MAIL FROM is sent with.
C27_Envelope ==
  \A t \in SendTasks :
    CommandsOf(t, "MAIL") # {} =>
      LET m == send[t].message
          given == m.to \o m.cc \o m.bcc
          all == [i \in 1..Len(given) |-> BareAddress[given[i]]]
          e == send[t].envelope
      IN /\ send[t].sender = BareAddress[m.from]
         /\ \A i \in CommandsOf(t, "MAIL") : cmds[i].rcpt = BareAddress[m.from]
         /\ Range(e) = Range(all)
         /\ \A i, j \in 1..Len(e) :
              i < j => /\ e[i] # e[j]
                       /\ FirstIndex(all, e[i]) < FirstIndex(all, e[j])

\* C27 witness: MAIL FROM was sent for a message from "N <s>" to "x" and
\* "N <x>", with cc "<y>" and bcc "y"; its envelope is x, y.
C27_Witness ==
  \E t \in SendTasks :
    /\ CommandsOf(t, "MAIL") # {}
    /\ send[t].message.from = "N <s>"
    /\ send[t].message.to = << "x", "N <x>" >>
    /\ send[t].message.cc = << "<y>" >>
    /\ send[t].message.bcc = << "y" >>
    /\ send[t].envelope = << "x", "y" >>
    /\ send[t].sender = "s"

\* ---------------------------------------------------------------- properties of verify()

\* verify() has ended, and a step of it has failed: connect, the STARTTLS
\* upgrade, authenticate, or NOOP.
VerifyEnded == pc[VerifyTask] = "done"

VerifyStepFailed ==
  \/ result[ConnectTask].status = "rejected"
  \/ result[UpgradeTask].status = "rejected"
  \/ result[AuthTask].status = "rejected"
  \/ \E i \in CommandsOf(VerifyTask, "NOOP") : cmds[i].status = "rejected"

\* verify() returns true only if the connection was opened and NOOP received
\* a reply with a code from lo to hi.
TrueOnlyAfter(lo, hi) ==
  (VerifyEnded /\ result[VerifyTask].value = "true") =>
    /\ result[ConnectTask].status = "resolved"
    /\ \E i \in CommandsOf(VerifyTask, "NOOP") :
         /\ cmds[i].written
         /\ cmds[i].code \in lo..hi

VerifyNeverThrows ==
  /\ result[VerifyTask].status # "rejected"
  /\ VerifyEnded => result[VerifyTask].value \in { "true", "false" }
  /\ (VerifyEnded /\ VerifyStepFailed) => result[VerifyTask].value = "false"

\* C28 as stated: verify() never throws; it returns true only if the
\* connection was opened and NOOP received a 2xx reply, and false whenever
\* connect, the STARTTLS upgrade, authentication or NOOP fails.
C28_VerifyTrueOn2xx == VerifyNeverThrows /\ TrueOnlyAfter(200, 299)

\* C28 amended: verify() never throws; it returns true only if the
\* connection was opened and NOOP received a reply with a code from 200 to
\* 399, and false whenever connect, the STARTTLS upgrade, authentication or
\* NOOP fails.
C28_Verify == VerifyNeverThrows /\ TrueOnlyAfter(200, 399)

\* C28 witness: verify() has returned true after a LOGIN exchange, NOOP
\* having been answered with 354.
C28_Witness ==
  /\ VerifyEnded
  /\ result[VerifyTask].value = "true"
  /\ result[AuthTask].status = "resolved"
  /\ AuthExchanges("LOGIN") # {}
  /\ \E i \in CommandsOf(VerifyTask, "NOOP") : cmds[i].code = 354

\* ---------------------------------------------------------------- properties of quit()

\* A step that calls quit(), and a step in which quit() goes on after its
\* await.
QuitCalled == pc[QuitTask] = "init" /\ pc'[QuitTask] # "init"

QuitResumed == pc[QuitTask] = "quit" /\ pc'[QuitTask] = "done"

\* The step has written nothing to a socket.
NothingWritten ==
  /\ pendingWrites' <= pendingWrites
  /\ \A i \in 1..Len(cmds') :
       cmds'[i].written => i <= Len(cmds) /\ cmds[i].written

\* The step has requested QUIT: the command is written, or it waits in the
\* queue behind the command in flight.
QuitSent ==
  /\ Len(cmds') = Len(cmds) + 1
  /\ cmds'[Len(cmds')].line = "QUIT"
  /\ cmds'[Len(cmds')].owner = QuitTask
  /\ \/ cmds'[Len(cmds')].written /\ currentCommand' = Len(cmds')
     \/ /\ currentCommand' = currentCommand
        /\ currentCommand # 0
        /\ commandQueue' = Append(commandQueue, Len(cmds'))

\* quit() goes on after QUIT has succeeded or failed: it destroys the socket
\* and leaves the connection CLOSED.
QuitDestroys ==
  QuitResumed =>
    /\ cmds[awaiting[QuitTask]].status \in { "resolved", "rejected" }
    /\ destroyed'
    /\ socket' = "null"
    /\ state' = "CLOSED"
    /\ result'[QuitTask].status = "resolved"

\* quit() on a CLOSED or CLOSING connection writes nothing and returns.
QuitOnClosed ==
  (QuitCalled /\ state \in { "CLOSED", "CLOSING" }) =>
    /\ NothingWritten
    /\ cmds' = cmds
    /\ state' = state
    /\ pc'[QuitTask] = "done"
    /\ result'[QuitTask].status = "resolved"

\* C29 as stated: quit() on a connection that is neither CLOSED nor CLOSING
\* sends QUIT and, whether QUIT succeeds or fails, then destroys the socket
\* so that the connection ends in state CLOSED; quit() on a CLOSED or CLOSING
\* connection writes nothing and returns.
C29_QuitSendsQuit ==
  [][ /\ (QuitCalled /\ state \notin { "CLOSED", "CLOSING" }) => QuitSent
      /\ QuitDestroys
      /\ QuitOnClosed ]_vars

\* C29 amended: quit() on a connection that is neither CLOSED nor CLOSING
\* and still has its socket sends QUIT, at once or queued behind the command
\* in flight; on one that has lost its socket (state ERROR after a socket
\* error) it writes nothing; in both cases, once QUIT has succeeded or
\* failed, it destroys the socket and leaves the connection CLOSED; quit() on
\* a CLOSED or CLOSING connection writes nothing and returns.
C29_Quit ==
  [][ /\ (QuitCalled /\ state \notin { "CLOSED", "CLOSING" }) =>
           /\ state' = "CLOSING"
           /\ IF socket # "null" /\ ~destroyed
              THEN QuitSent
              ELSE /\ NothingWritten
                   /\ cmds'[Len(cmds')].line = "QUIT"
                   /\ cmds'[Len(cmds')].status = "rejected"
      /\ QuitDestroys
      /\ QuitOnClosed ]_vars

\* C29 witness: QUIT was written and answered with an error, quit() has
\* returned, the connection is destroyed and CLOSED.
C29_Witness ==
  /\ pc[QuitTask] = "done"
  /\ destroyed
  /\ state = "CLOSED"
  /\ \E i \in Ids :
       /\ cmds[i].line = "QUIT"
       /\ cmds[i].written
       /\ cmds[i].status = "rejected"
       /\ cmds[i].code = 550

\* ---------------------------------------------------------------- properties of sendCommand on a dead connection

\* The commands the step has created.
Created == (Len(cmds) + 1)..Len(cmds')

\* C30: once the connection has been destroyed or has no socket, every
\* sendCommand call rejects with CONNECTION_FAILED, writes nothing to any
\* socket and leaves the command queue and the in-flight slot unchanged.
C30_DeadConnectionRejects ==
  [][ (Created # {} /\ (destroyed \/ socket = "null")) =>
        /\ \A i \in Created :
             /\ cmds'[i].status = "rejected"
             /\ cmds'[i].err = "ECONNECTION"
             /\ cmds'[i].code = 0
             /\ ~cmds'[i].written
        /\ NothingWritten
        /\ commandQueue' = commandQueue
        /\ currentCommand' = currentCommand ]_vars

\* C30 witness: two callers' commands were rejected unwritten by a
\* destroyed connection.
C30_Witness ==
  /\ destroyed
  /\ \E i, j \in Ids :
       /\ i # j
       /\ cmds[i].owner \in { UserTask(u) : u \in Users }
       /\ cmds[j].owner \in { UserTask(u) : u \in Users }
       /\ cmds[i].err = "ECONNECTION" /\ ~cmds[i].written
       /\ cmds[j].err = "ECONNECTION" /\ ~cmds[j].written

\* ---------------------------------------------------------------- quoted-printable

\* Strings are sequences of code points, buffers sequences of bytes.
CR == 13
LF == 10
EQ == 61

\* Buffer.from(data, 'utf-8') for code points below U+0800
Utf8Bytes(cp) ==
  IF cp < 128 THEN << cp >>
  ELSE << 192 + (cp \div 64), 128 + (cp % 64) >>

RECURSIVE BufferFrom(_)
BufferFrom(data) ==
  IF data = << >> THEN << >>
  ELSE Utf8Bytes(Head(data)) \o BufferFrom(Tail(data))

\* Buffer.toString('utf-8'): a lead byte without its continuation byte, and
\* a continuation byte on its own, become U+FFFD.
TwoBytes(bytes, i) ==
  bytes[i] \in 194..223 /\ i + 1 <= Len(bytes) /\ bytes[i + 1] \in 128..191

RECURSIVE Utf8From(_, _)
Utf8From(bytes, i) ==
  CASE i > Len(bytes) -> << >>
    [] i <= Len(bytes) /\ bytes[i] < 128 ->
         << bytes[i] >> \o Utf8From(bytes, i + 1)
    [] i <= Len(bytes) /\ bytes[i] >= 128 /\ TwoBytes(bytes, i) ->
         << (bytes[i] - 192) * 64 + (bytes[i + 1] - 128) >>
           \o Utf8From(bytes, i + 2)
    [] OTHER -> << 65533 >> \o Utf8From(bytes, i + 1)

Utf8ToString(bytes) == Utf8From(bytes, 1)

\* byte.toString(16).toUpperCase().padStart(2, '0') with '=' before it
HexDigit(n) == IF n < 10 THEN 48 + n ELSE 55 + n

Escape(byte) == << EQ, HexDigit(byte \div 16), HexDigit(byte % 16) >>

\* /^[0-9A-Fa-f]{2}$/ and parseInt(hex, 16)
IsHexDigit(c) == c \in (48..57) \cup (65..70) \cup (97..102)

HexValue(c) ==
  IF c \in 48..57 THEN c - 48
  ELSE IF c \in 65..70 THEN c - 55 ELSE c - 87

maxLineLength == 76

\* The end of the loop body of both encoders (simple-encoding.ts 59-65,
\* part_005 117-123): what is appended to the result, with a soft break
\* first when the line would grow too long, and the length of the line
\* after it.
Emitted(currentLineLength, encoded) ==
  IF currentLineLength + Len(encoded) > maxLineLength
  THEN << EQ, CR, LF >> \o encoded
  ELSE encoded

LengthAfter(currentLineLength, encoded) ==
  IF currentLineLength + Len(encoded) > maxLineLength
  THEN Len(encoded)
  ELSE currentLineLength + Len(encoded)

\* The byte at index i is a CR followed by LF.
BeforeLF(bytes, i) ==
  bytes[i] = CR /\ i + 1 <= Len(bytes) /\ bytes[i + 1] = LF

\* What SimpleEncoding.quotedPrintableEncode writes for a byte that is not
\* part of a line break (simple-encoding.ts 45-57)
Encoded(byte) ==
  IF byte < 32 \/ byte > 126 \/ byte = EQ THEN Escape(byte) ELSE << byte >>

\* SimpleEncoding.quotedPrintableEncode (simple-encoding.ts 26-69): what the
\* loop appends to the result from index i on.
RECURSIVE quotedPrintableEncodeFrom(_, _, _)
quotedPrintableEncodeFrom(bytes, i, currentLineLength) ==
  CASE i > Len(bytes) -> << >>
    [] i <= Len(bytes) /\ BeforeLF(bytes, i) ->
         << CR, LF >> \o quotedPrintableEncodeFrom(bytes, i + 2, 0)
    [] i <= Len(bytes) /\ bytes[i] = LF ->
         << CR, LF >> \o quotedPrintableEncodeFrom(bytes, i + 1, 0)
    [] OTHER ->
         Emitted(currentLineLength, Encoded(bytes[i]))
           \o quotedPrintableEncodeFrom(bytes, i + 1,
                LengthAfter(currentLineLength, Encoded(bytes[i])))

quotedPrintableEncode(data) ==
  quotedPrintableEncodeFrom(BufferFrom(data), 1, 0)

\* data.replace(/=\r\n/g, '') (simple-encoding.ts 73)
SoftBreak(data, i) ==
  i + 2 <= Len(data) /\ SubSeq(data, i, i + 2) = << EQ, CR, LF >>

RECURSIVE WithoutSoftBreaksFrom(_, _)
WithoutSoftBreaksFrom(data, i) ==
  CASE i > Len(data) -> << >>
    [] i <= Len(data) /\ SoftBreak(data, i) -> WithoutSoftBreaksFrom(data, i + 3)
    [] OTHER -> << data[i] >> \o WithoutSoftBreaksFrom(data, i + 1)

WithoutSoftBreaks(data) == WithoutSoftBreaksFrom(data, 1)

\* '=' followed by two hex digits that are not the end of the text
\* (simple-encoding.ts 80-82, part_005 144-146: in both, the test is
\* index + 2 < length)
HexPair(text, i) ==
  /\ text[i] = EQ
  /\ i + 2 <= Len(text)
  /\ IsHexDigit(text[i + 1])
  /\ IsHexDigit(text[i + 2])

\* The bytes of one line, or of a text without soft breaks, from index i on
\* (simple-encoding.ts 79-91, part_005 143-155)
RECURSIVE DecodedBytes(_, _)
DecodedBytes(text, i) ==
  CASE i > Len(text) -> << >>
    [] i <= Len(text) /\ HexPair(text, i) ->
         << 16 * HexValue(text[i + 1]) + HexValue(text[i + 2]) >>
           \o DecodedBytes(text, i + 3)
    [] OTHER -> << text[i] >> \o DecodedBytes(text, i + 1)

\* SimpleEncoding.quotedPrintableDecode (simple-encoding.ts 71-95)
quotedPrintableDecode(data) ==
  Utf8ToString(DecodedBytes(WithoutSoftBreaks(data), 1))

\* What QuotedPrintable.encode writes for the byte at index i when it is
\* not part of a line break (part_005 101-114): a space or a tab is escaped
\* at the end of the data and before a line break.
EncodedAt(bytes, i) ==
  LET byte == bytes[i]
      last == i = Len(bytes)
      beforeBreak == ~last /\ bytes[i + 1] \in { LF, CR }
  IN IF \/ byte < 32
        \/ byte > 126
        \/ byte = EQ
        \/ byte = 32 /\ (last \/ beforeBreak)
        \/ byte = 9 /\ (last \/ beforeBreak)
     THEN Escape(byte)
     ELSE << byte >>

\* QuotedPrintable.encode (part_005 72-127) with the default line length:
\* what the loop appends to the result from index i on.
RECURSIVE encodeFrom(_, _, _)
encodeFrom(bytes, i, currentLineLength) ==
  CASE i > Len(bytes) -> << >>
    [] i <= Len(bytes) /\ bytes[i] = LF /\ i > 1 /\ bytes[i - 1] = CR ->
         encodeFrom(bytes, i + 1, currentLineLength)
    [] i <= Len(bytes) /\ bytes[i] = LF /\ ~(i > 1 /\ bytes[i - 1] = CR) ->
         << CR, LF >> \o encodeFrom(bytes, i + 1, 0)
    [] i <= Len(bytes) /\ BeforeLF(bytes, i) ->
         << CR, LF >> \o encodeFrom(bytes, i + 2, 0)
    [] OTHER ->
         Emitted(currentLineLength, EncodedAt(bytes, i))
           \o encodeFrom(bytes, i + 1,
                         LengthAfter(currentLineLength, EncodedAt(bytes, i)))

encode(data) == encodeFrom(BufferFrom(data), 1, 0)

\* data.split('\r\n'): the lines from index i on, the first of them
\* starting at index from
RECURSIVE SplitFrom(_, _, _)
SplitFrom(data, i, from) ==
  CASE i > Len(data) -> << SubSeq(data, from, Len(data)) >>
    [] i <= Len(data) /\ BeforeLF(data, i) ->
         << SubSeq(data, from, i - 1) >> \o SplitFrom(data, i + 2, i + 2)
    [] OTHER -> SplitFrom(data, i + 1, from)

SplitCRLF(data) == SplitFrom(data, 1, 1)

\* QuotedPrintable.decode (part_005 129-165): the bytes of lines i and on.
\* In the code a '=' that starts no hex pair is pushed as it is and the scan
\* goes on with the next character, as DecodedBytes does.
RECURSIVE decodeLines(_, _)
decodeLines(lines, i) ==
  IF i > Len(lines) THEN << >>
  ELSE LET isSoftBreak == lines[i] # << >> /\ lines[i][Len(lines[i])] = EQ
           line == IF isSoftBreak
                   THEN SubSeq(lines[i], 1, Len(lines[i]) - 1)
                   ELSE lines[i]
       IN DecodedBytes(line, 1)
            \o (IF ~isSoftBreak /\ i < Len(lines) THEN << LF >> ELSE << >>)
            \o decodeLines(lines, i + 1)

decode(data) == Utf8ToString(decodeLines(SplitCRLF(data), 1))

\* The strings under check: up to MaxText code points of an alphabet with
\* a letter that is a hex digit, '=', space, tab, LF and a two-byte
\* character, after a margin of letters that puts them at the end of an
\* encoded line.
MaxText == 3

Alphabet == { 97, EQ, 32, 9, LF, 233 }

Margins == { 0, maxLineLength - 2, maxLineLength - 1 }

Texts == UNION { [1..n -> Alphabet] : n \in 0..MaxText }

Margin(n) == [i \in 1..n |-> 97]

Codec(stage, data, encoded, decoded) ==
  [ stage |-> stage, data |-> data, encoded |-> encoded, decoded |-> decoded ]

\* Both pairs, by name
Pairs == { "SimpleEncoding", "QuotedPrintable" }

InitCodec ==
  /\ env = SendEnvironment("codec", FALSE, 0, {})
  /\ InitObject
  /\ parser = NoParser
  /\ \E margin \in Margins, text \in Texts :
       codec = Codec("data", Margin(margin) \o text,
                     [p \in Pairs |-> << >>], [p \in Pairs |-> << >>])

Encode ==
  /\ codec.stage = "data"
  /\ Becomes([World EXCEPT
       !.codec = Codec("encoded", codec.data,
                       [p \in Pairs |->
                          IF p = "SimpleEncoding"
                          THEN quotedPrintableEncode(codec.data)
                          ELSE encode(codec.data)],
                       codec.decoded)])

Decode ==
  /\ codec.stage = "encoded"
  /\ Becomes([World EXCEPT
       !.codec = Codec("decoded", codec.data, codec.encoded,
                       [p \in Pairs |->
                          IF p = "SimpleEncoding"
                          THEN quotedPrintableDecode(codec.encoded[p])
                          ELSE decode(codec.encoded[p])])])

NextCodec == Encode \/ Decode

SpecCodec == InitCodec /\ [][NextCodec]_vars

\* ---------------------------------------------------------------- properties of quoted-printable

\* The string under encoding contains no CR.
WithoutCR == \A i \in 1..Len(codec.data) : codec.data[i] # CR

\* The lines of an encoded text that do not end in a soft break are at most
\* 76 characters long.
LinesFit(encoded) ==
  \A line \in Range(SplitCRLF(encoded)) :
    Len(line) <= maxLineLength \/ line[Len(line)] = EQ

\* C31: for every UTF-8 string without CR, decoding the quoted-printable
\* encoding of the string yields the string again, both for
\* SimpleEncoding.quotedPrintableEncode / quotedPrintableDecode and for
\* QuotedPrintable.encode / decode.
C31_QuotedPrintableRoundTrip ==
  (codec.stage = "decoded" /\ WithoutCR) =>
    \A p \in Pairs : codec.decoded[p] = codec.data

\* ---------------------------------------------------------------- client specification

\* A client with or without credentials that calls verify() and, once
\* verify() has returned, send().
ClientEnvs ==
  { [AuthEnvironment(starttls, credentials, advertise)
       EXCEPT !.sends = 1,
              !.messages = { Message(<< "x" >>, << >>, << >>, << << "a" >> >>) }] :
      starttls \in BOOLEAN,
      credentials \in { NoAuth } \cup
                      { Credentials(type, "u", "p", "k") :
                          type \in { "plain", "login", "cram-md5", "xoauth2" } },
      advertise \in { "", "AUTH PLAIN LOGIN CRAM-MD5", "AUTH XOAUTH2 PLAIN" } }

InitClient ==
  /\ env \in ClientEnvs
  /\ InitConnection

\* send() called after verify() has returned (part_006 91-105)
LaterSend ==
  /\ pc[VerifyTask] = "done"
  /\ SendCall(1)

NextClient ==
  \/ NextAuth
  \/ LaterSend
  \/ SendProceed(1)
  \/ MailSettled(1)

SpecClient == InitClient /\ [][NextClient]_vars

\* ---------------------------------------------------------------- properties of the client's connection

\* The commands of a mail transaction and of verify().
EnvelopeCommands == { "MAIL", "RCPT", "DATA", "NOOP" }

\* The connection is ready for a transaction: the STARTTLS upgrade has
\* completed when STARTTLS was advertised on a plaintext transport, and
\* authentication has completed when credentials are configured.
Prepared ==
  /\ (capabilities.starttls /\ ~secure) => result[UpgradeTask].status = "resolved"
  /\ env.auth # NoAuth => result[AuthTask].status = "resolved"

\* C32: if connect() fails during the STARTTLS upgrade or during
\* authentication, no later send() or verify() writes MAIL FROM, RCPT TO,
\* DATA or NOOP on the same connection: such a command is written only on a
\* connection whose upgrade (when STARTTLS was advertised and secure is
\* false) and authentication (when credentials are configured) have both
\* completed successfully.
C32_EnvelopeOnlyWhenPrepared ==
  \A i \in 1..Len(cmds) :
    (cmds[i].line \in EnvelopeCommands /\ cmds[i].written) => Prepared

\* C33: when a second send() or verify() is issued while the first connect()
\* of the client is still in progress, no MAIL FROM or NOOP is written
\* before the 220 greeting, EHLO, the optional STARTTLS upgrade and
\* authentication have completed, and the 220 greeting is never delivered as
\* the response to a queued command.
C33_NothingBeforeHandshake ==
  \A i \in 1..Len(cmds) :
    (cmds[i].line \in { "MAIL", "NOOP" } /\ cmds[i].written) =>
      /\ result[ConnectTask].status = "resolved"
      /\ Prepared
      /\ cmds[i].code # 220

\* ---------------------------------------------------------------- properties of the DATA phase

\* C34: every line written to the socket during the DATA phase is
\* terminated by exactly one CRLF and contains no other CR or LF character.
\* The write appends the CRLF (index.ts 350), so the line handed to
\* sendCommand must contain neither.
C34_PayloadLinesEndInOneCRLF ==
  \A i \in 1..Len(cmds) :
    (cmds[i].line = "LINE" /\ cmds[i].written) =>
      \A k \in 1..Len(cmds[i].text) : cmds[i].text[k] \notin { "\r", "\n" }

\* ---------------------------------------------------------------- properties of the LOGIN mechanism

\* The lines of the LOGIN exchange that follow AUTH LOGIN: the user name and
\* the password.
LoginLines ==
  { i \in 2..Len(cmds) :
      /\ cmds[i].line = "REPLY"
      /\ cmds[i].written
      /\ \E j \in 1..(i - 1) : cmds[j].text = << "AUTH", "LOGIN" >> }

\* C35: in the LOGIN mechanism base64(user) is sent only after a 334 reply
\* to AUTH LOGIN and base64(pass) only after a 334 reply to base64(user); if
\* either reply has any other code, the password is not sent.
C35_LoginAfter334 ==
  \A i \in LoginLines :
    /\ cmds[i - 1].code = 334
    /\ cmds[i].text = << base64[<< env.auth.pass >>] >> =>
         \A j \in 1..(i - 1) :
           (cmds[j].text = << "AUTH", "LOGIN" >> \/ j \in LoginLines) =>
             cmds[j].code = 334

\* ---------------------------------------------------------------- properties of the greeting

\* connect() has been called, the transport is established and no 220
\* greeting has been taken yet.
AwaitingGreeting ==
  /\ pc[ConnectTask] # "init"
  /\ "connect" \notin listeners
  /\ "greeting" \in listeners

\* The step delivers complete replies to a connection that awaits the
\* greeting, and none of them is taken as the greeting.
OtherGreeting ==
  /\ AwaitingGreeting
  /\ state = "CONNECTED"
  /\ currentCommand = 0
  /\ \A l \in env.lines : l.code # 0 /\ l.sep = " "
  /\ linesLeft' < linesLeft
  /\ "greeting" \in listeners'

\* The step takes the socket from a connection that awaits the greeting:
\* the server closes it, or the idle watchdog destroys it.
ClosedBeforeGreeting ==
  /\ AwaitingGreeting
  /\ socket # "null"
  /\ socket' = "null"

\* C36: once the transport is established, connect() does not stay pending
\* when no 220 greeting is delivered: when the server sends another reply as
\* its greeting or closes the socket, or the connection times out waiting,
\* connect() rejects and the socket is destroyed.
C36_ConnectRejectsWithoutGreeting ==
  [][ (OtherGreeting \/ ClosedBeforeGreeting) =>
        /\ result'[ConnectTask].status = "rejected"
        /\ socket' = "null" ]_vars

\* ---------------------------------------------------------------- retry specification

\* A client that sends one message and, once that send() has ended, another,
\* over a transport that may report a socket error at any time; the server
\* has no STARTTLS, so that the socket is the one connect() made, and it
\* answers every line of a message, so that a send() can succeed.
RetryEnvs ==
  { [SendEnvironment("lenient", FALSE, 2,
                     { Message(<< "x" >>, << >>, << >>, << << "a" >> >>) })
       EXCEPT !.faults = { "error" }] }

InitRetry ==
  /\ env \in RetryEnvs
  /\ InitConnection

\* the second send(), called after the first has returned or thrown
SendAgain ==
  /\ pc[SendTask(1)] = "done"
  /\ SendCall(2)

NextRetry ==
  \/ SendCall(1)
  \/ SendAgain
  \/ SocketConnect
  \/ SocketError
  \/ SocketClose
  \/ ServerGreeting
  \/ ServerReply
  \/ EhloSettled(ConnectTask)
  \/ HeloSettled(ConnectTask)
  \/ \E s \in Sends : ClientConnected(s)
  \/ \E s \in Sends : SendProceed(s)
  \/ \E s \in Sends : MailSettled(s)
  \/ \E s \in Sends : RcptSettled(s)
  \/ \E s \in Sends : DataSettled(s)
  \/ \E s \in Sends : LineSettled(s)
  \/ \E s \in Sends : DotSettled(s)

SpecRetry == InitRetry /\ [][NextRetry]_vars

\* ---------------------------------------------------------------- properties of reconnection

\* A step in which send() is called.
SendCalled(s) == pc[SendTask(s)] = "init" /\ pc'[SendTask(s)] # "init"

\* A socket error has destroyed the client's connection.
FailedBySocketError == destroyed /\ "error" \in emitted /\ socket = "null"

\* C37: after a connection attempt or an established connection fails with
\* a socket error, a later send() on the same client creates a new
\* connection and performs the handshake again; the client never keeps
\* using a connection whose socket has been destroyed.
C37_NewConnectionAfterError ==
  [][ \A s \in Sends :
        (SendCalled(s) /\ FailedBySocketError) =>
          /\ ~destroyed'
          /\ socket' # "null"
          /\ state' = "CONNECTING"
          /\ pc'[ConnectTask] = "pending" ]_vars

\* ---------------------------------------------------------------- properties of the command events

\* The lines the mechanisms compute from the user name, the password or the
\* access token.
CredentialLines == { base64[parts] : parts \in DOMAIN base64 }

\* The command events emitted so far, in the order of the commands.
CommandEvents ==
  { i \in 1..Len(cmds) : cmds[i].written }

\* C38: what the command event channel emits during authentication does not
\* depend on the credentials: no emitted command event carries
\* base64(user), base64(pass), the CRAM-MD5 response, or the PLAIN or
\* XOAUTH2 initial response.
C38_NoCredentialEmitted ==
  \A i \in CommandEvents : Range(cmds[i].logged) \cap CredentialLines = {}

\* ---------------------------------------------------------------- properties of write failures

\* The commands written to the socket so far.
Written == { i \in 1..Len(cmds) : cmds[i].written }

\* The commands whose write has not completed: socket.write completes in
\* the order of the writes, so they are the commands written last.
WritePending ==
  { i \in Written : Cardinality({ k \in Written : k >= i }) <= pendingWrites }

\* The command whose write completes next.
WriteOwner ==
  IF WritePending = {} THEN 0
  ELSE CHOOSE i \in WritePending : \A k \in WritePending : i <= k

\* A step in which the write error reaches the promise of command b.
RejectedByWriteError(b) ==
  /\ b <= Len(cmds)
  /\ cmds[b].status = "pending"
  /\ cmds'[b].status = "rejected"
  /\ cmds'[b].err = "EIO"

\* C39: a socket write failure rejects only the command whose write failed:
\* when the write of command A fails after the response to A has been
\* processed and command B is in flight, B is not rejected with A's error.
C39_WriteFailureRejectsOwner ==
  [][ \A b \in 1..Len(cmds) : RejectedByWriteError(b) => b = WriteOwner ]_vars

\* ---------------------------------------------------------------- response parsing

\* /\d/, and the characters the '.' of a regular expression does not match
IsDigit(c) == c \in 48..57

LineTerminators == { LF, CR, 8232, 8233 }

SP == 32
HYPHEN == 45

\* line.match(/^(\d{3})([- ])(.*)$/) (index.ts 236)
Matches(line) ==
  /\ Len(line) >= 4
  /\ \A i \in 1..3 : IsDigit(line[i])
  /\ line[4] \in { HYPHEN, SP }
  /\ \A i \in 5..Len(line) : line[i] \notin LineTerminators

\* parseInt(code, 10) of three digits
parseInt(code) ==
  (code[1] - 48) * 100 + (code[2] - 48) * 10 + (code[3] - 48)

\* responseBuffer.join('\n')
RECURSIVE join(_)
join(texts) ==
  CASE texts = << >> -> << >>
    [] Len(texts) = 1 -> texts[1]
    [] OTHER -> texts[1] \o << LF >> \o join(Tail(texts))

\* this.handleResponse(parseInt(code, 10), message), as far as the parser
\* goes: the response handed over
Handed(p, code, message) ==
  [p EXCEPT !.responses =
              Append(@, [ code |-> parseInt(code), message |-> message ])]

\* processLine(line) on the characters of the line (index.ts 235-256)
processLineOf(p, line) ==
  IF ~Matches(line) THEN p
  ELSE LET code == SubSeq(line, 1, 3)
           separator == line[4]
           message == SubSeq(line, 5, Len(line))
       IN IF p.multilineResponse /\ code = p.lastResponseCode
          THEN LET p1 == [p EXCEPT !.responseBuffer = Append(@, message)]
               IN IF separator = SP
                  THEN [Handed([p1 EXCEPT !.multilineResponse = FALSE],
                               code, join(p1.responseBuffer))
                          EXCEPT !.responseBuffer = << >>,
                                 !.lastResponseCode = << >>]
                  ELSE p1
          ELSE IF separator = HYPHEN
          THEN [p EXCEPT !.multilineResponse = TRUE,
                         !.lastResponseCode = code,
                         !.responseBuffer = Append(@, message)]
          ELSE Handed(p, code, message)

RECURSIVE processLinesOf(_, _, _)
processLinesOf(p, lines, i) ==
  IF i > Len(lines) THEN p
  ELSE processLinesOf(processLineOf(p, lines[i]), lines, i + 1)

\* processDataBuffer() (index.ts 224-233): split('\r\n'), the last piece
\* stays in the buffer, the others are processed
processDataBufferOf(p) ==
  LET lines == SplitCRLF(p.dataBuffer)
      n == Len(lines)
  IN processLinesOf([p EXCEPT !.dataBuffer = lines[n]],
                    SubSeq(lines, 1, n - 1), 1)

\* socket.on('data') (index.ts 191-194): the chunk is decoded on its own and
\* appended to the buffer
onData(p, data) ==
  processDataBufferOf([p EXCEPT !.dataBuffer = @ \o Utf8ToString(data)])

\* ---------------------------------------------------------------- parser specification

\* Response lines a server sends: "250 a", "250-a", "250 é" in UTF-8,
\* "550-b", and "ab", which is not a response line.
WireLines ==
  { << 50, 53, 48, SP, 97 >>,
    << 50, 53, 48, HYPHEN, 97 >>,
    << 50, 53, 48, SP >> \o Utf8Bytes(233),
    << 53, 53, 48, HYPHEN, 98 >>,
    << 97, 98 >> }

MaxWireLines == 3

RECURSIVE StreamsOf(_)
StreamsOf(n) ==
  IF n = 0 THEN { << >> }
  ELSE { line \o << CR, LF >> \o stream :
           line \in WireLines, stream \in StreamsOf(n - 1) }

Streams == UNION { StreamsOf(n) : n \in 1..MaxWireLines }

InitParser ==
  /\ env = SendEnvironment("parser", FALSE, 0, {})
  /\ InitObject
  /\ codec = NoCodec
  /\ \E stream \in Streams :
       parser = [NoParser EXCEPT !.stream = stream, !.rest = stream]

\* The next bytes of the stream arrive as one chunk of any size.
SocketDataChunk ==
  /\ parser.rest # << >>
  /\ \E n \in 1..Len(parser.rest) :
       LET arrived == [parser EXCEPT !.rest = SubSeq(@, n + 1, Len(@))]
       IN Becomes([World EXCEPT
                     !.parser = onData(arrived, SubSeq(parser.rest, 1, n))])

NextParser == SocketDataChunk

SpecParser == InitParser /\ [][NextParser]_vars

\* ---------------------------------------------------------------- properties of response parsing

\* The whole stream has arrived.
Arrived == parser.stream # << >> /\ parser.rest = << >>

\* The responses handed over when the stream arrives as one chunk.
InOneChunk(stream) == onData(NoParser, stream).responses

\* C40: response parsing does not depend on how the server's byte stream is
\* split into socket data chunks: however the stream was split, the
\* responses handed over are those of the stream arriving as one chunk.
C40_ChunkingIndependent ==
  Arrived => parser.responses = InOneChunk(parser.stream)

====
